---- MODULE Spec2Model ----
(***************************************************************************)
(* Model of the response cache of the interview bot                        *)
(* (src/modules/cache-manager.js), of the durable slot it persists to,     *)
(* and of the response generator (LLMClient in                             *)
(* src/modules/lip-sync-controller.js): retries, validation gate,          *)
(* post-processing, fallback questions and conversation history.           *)
(*                                                                         *)
(* A JavaScript string is a sequence of one-character strings.  A value    *)
(* that is not a string (null, undefined, a boolean, a number, an object)  *)
(* is a one-element sequence whose element is not a character, so that     *)
(* every cell of the cache has the same shape.  Sampling temperatures are  *)
(* counted in hundredths.                                                  *)
(***************************************************************************)
EXTENDS Integers, Sequences, FiniteSets, TLC

(* ----------------------------- bounds ---------------------------------- *)
\* largest maxSize a cache is constructed with
MaxCap == 2
\* largest number of get calls counted (hits + misses) before get is disabled
MaxLookups == 1
\* longest conversation history a generateResponse call may extend
MaxHistory == 4
\* longest conversation history in the runs that only make it grow
MaxLongHistory == 22
\* utterance cycles of the application in one run
MaxCycles == 2
\* times the interview is started in one run
MaxStarts == 1
\* changes a caller makes to a list that getHistory returned
MaxEdits == 2

\* the prefix length of hash(), cache-manager.js line 12
HashPrefixLen == 100
\* generateWithRetry(userMessage, 3)
MaxRetries == 3
\* let temperature = 0.8 and temperature += 0.15, in hundredths
BaseTemperature == 80
TemperatureStep == 15
\* CONFIG.conversation.maxHistoryLength
maxHistoryLength == 10
\* the capacity of the application's cache
AppCacheSize == 50

(* ----------------------------- strings --------------------------------- *)
Null == <<"null">>
Undefined == <<"undefined">>
True == <<"true">>
False == <<"false">>
NumberCell == <<"number">>
ObjectCell == <<"object">>

Min(a, b) == IF a < b THEN a ELSE b

Rep(c, n) == [i \in 1..n |-> c]

WhiteSpace == {" ", "\n"}

UpperCase == <<"A", "B", "C", "D", "E", "F", "G", "H", "I", "J", "K", "L", "M",
               "N", "O", "P", "Q", "R", "S", "T", "U", "V", "W", "X", "Y", "Z">>

LowerCase == <<"a", "b", "c", "d", "e", "f", "g", "h", "i", "j", "k", "l", "m",
               "n", "o", "p", "q", "r", "s", "t", "u", "v", "w", "x", "y", "z">>

LowerOf == [c \in {UpperCase[i] : i \in 1..26} |->
               LowerCase[CHOOSE i \in 1..26 : UpperCase[i] = c]]

\* String.prototype.toLowerCase on the letters of the model's alphabet
LowerChar(c) == IF c \in DOMAIN LowerOf THEN LowerOf[c] ELSE c

toLowerCase(s) == [i \in 1..Len(s) |-> LowerChar(s[i])]

RECURSIVE trimStart(_)
trimStart(s) == IF s # <<>> /\ Head(s) \in WhiteSpace THEN trimStart(Tail(s)) ELSE s

RECURSIVE trimEnd(_)
trimEnd(s) == IF s # <<>> /\ s[Len(s)] \in WhiteSpace
              THEN trimEnd(SubSeq(s, 1, Len(s) - 1)) ELSE s

\* String.prototype.trim
trim(s) == trimEnd(trimStart(s))

\* String.prototype.substring(from, to) with 0 <= from <= to
substring(s, from, to) == SubSeq(s, from + 1, Min(to, Len(s)))

hash_nolower(text) == substring(trim(text), 0, HashPrefixLen)

\* CacheManager.hash
hash(text) == substring(trim(toLowerCase(text)), 0, HashPrefixLen)

(* ------------------------- the JavaScript Map -------------------------- *)
\* a Map is the sequence of its entries <<key, value>> in insertion order
MapKeys(m) == {m[i][1] : i \in 1..Len(m)}

MapHas(m, k) == k \in MapKeys(m)

MapIndex(m, k) == CHOOSE i \in 1..Len(m) : m[i][1] = k

\* Map.prototype.get: undefined when the key is absent
MapGet(m, k) == IF MapHas(m, k) THEN m[MapIndex(m, k)][2] ELSE Undefined

\* Map.prototype.delete: a no-op when the key is absent
MapDelete(m, k) ==
    LET F[i \in 0..Len(m)] ==
            IF i = 0 THEN <<>>
            ELSE IF m[i][1] # k THEN Append(F[i - 1], m[i]) ELSE F[i - 1]
    IN F[Len(m)]

\* Map.prototype.set: an existing key keeps its position, a new key goes last
MapSet(m, k, v) ==
    IF MapHas(m, k)
    THEN [i \in 1..Len(m) |-> IF m[i][1] = k THEN <<k, v>> ELSE m[i]]
    ELSE Append(m, <<k, v>>)

MapFirstKey_last(m) == IF m = <<>> THEN Undefined ELSE m[Len(m)][1]

\* Map.prototype.keys().next().value: undefined for an empty Map
MapFirstKey(m) == IF m = <<>> THEN Undefined ELSE m[1][1]

(* ------------------------------- JSON ---------------------------------- *)
\* the concatenation of a sequence of sequences, by halves
RECURSIVE Flatten(_)
Flatten(ss) ==
    IF ss = <<>> THEN <<>>
    ELSE IF Len(ss) = 1 THEN ss[1]
    ELSE LET h == Len(ss) \div 2
         IN Flatten(SubSeq(ss, 1, h)) \o Flatten(SubSeq(ss, h + 1, Len(ss)))

\* the escape JSON.stringify writes for one character of a string
EscapeChar(c) == CASE c = "\"" -> <<"\\", "\"">>
                   [] c = "\\" -> <<"\\", "\\">>
                   [] c = "\n" -> <<"\\", "n">>
                   [] OTHER -> <<c>>

\* JSON.stringify of a string
QuoteString(s) == <<"\"">> \o Flatten([i \in 1..Len(s) |-> EscapeChar(s[i])]) \o <<"\"">>

\* JSON.stringify of one cell: a string is quoted; null and undefined (inside
\* an array) are written as null
StringifyCell(c) == IF c \in {Null, Undefined} THEN <<"n", "u", "l", "l">>
                    ELSE QuoteString(c)

StringifyEntry(e) == <<"[">> \o StringifyCell(e[1]) \o <<",">> \o StringifyCell(e[2]) \o <<"]">>

JSONstringify_noescape(entries) ==
    LET cell(c) == <<"\"">> \o c \o <<"\"">>
        F[i \in 0..Len(entries)] ==
            IF i = 0 THEN <<>>
            ELSE F[i - 1] \o (IF i = 1 THEN <<>> ELSE <<",">>)
                 \o <<"[">> \o cell(entries[i][1]) \o <<",">> \o cell(entries[i][2]) \o <<"]">>
    IN <<"[">> \o F[Len(entries)] \o <<"]">>

\* JSON.stringify(Array.from(map.entries())): an array of two-element arrays
JSONstringify(entries) ==
    LET F[i \in 0..Len(entries)] ==
            IF i = 0 THEN <<>>
            ELSE F[i - 1] \o (IF i = 1 THEN <<>> ELSE <<",">>) \o StringifyEntry(entries[i])
    IN <<"[">> \o F[Len(entries)] \o <<"]">>

\* A parsed JSON value: t is its type, s its characters (string, number),
\* a its elements (array)
JNull == [t |-> "null", s |-> <<>>, a |-> <<>>]
JStr(s) == [t |-> "str", s |-> s, a |-> <<>>]
JNum(s) == [t |-> "num", s |-> s, a |-> <<>>]
JArr(a) == [t |-> "arr", s |-> <<>>, a |-> a]

\* the result of a parsing step: ok, the value, and the next position
PFail == [ok |-> FALSE, v |-> JNull, i |-> 0]
POk(v, i) == [ok |-> TRUE, v |-> v, i |-> i]

Digits == {"0", "1", "2", "3", "4", "5", "6", "7", "8", "9"}

RECURSIVE SkipWs(_, _)
SkipWs(s, i) == IF i <= Len(s) /\ s[i] \in WhiteSpace THEN SkipWs(s, i + 1) ELSE i

\* the first position from i on that holds a quote, a backslash or a raw
\* line break, or Len(s) + 1
NextSpecial(s, i) ==
    LET P == {k \in i..Len(s) : s[k] \in {"\"", "\\", "\n"}}
    IN IF P = {} THEN Len(s) + 1 ELSE CHOOSE k \in P : \A q \in P : k <= q

\* the rest of a string literal, from position i (after the opening quote):
\* plain characters are taken up to the next special one
RECURSIVE ParseString(_, _, _)
ParseString(s, i, acc) ==
    LET k == NextSpecial(s, i)
        got == acc \o SubSeq(s, i, k - 1)
    IN IF k > Len(s) THEN PFail
       ELSE IF s[k] = "\"" THEN POk(JStr(got), k + 1)
       ELSE IF s[k] = "\n" THEN PFail
       ELSE IF k + 1 > Len(s) THEN PFail
       ELSE IF s[k + 1] \in {"\"", "\\", "/"}
            THEN ParseString(s, k + 2, Append(got, s[k + 1]))
       ELSE IF s[k + 1] = "n" THEN ParseString(s, k + 2, Append(got, "\n"))
       ELSE PFail

RECURSIVE ParseDigits(_, _, _)
ParseDigits(s, i, acc) ==
    IF i <= Len(s) /\ s[i] \in Digits THEN ParseDigits(s, i + 1, Append(acc, s[i]))
    ELSE POk(JNum(acc), i)

RECURSIVE ParseValue(_, _)
RECURSIVE ParseElems(_, _, _)

\* the elements of an array, from position i (a value is expected there)
ParseElems(s, i, acc) ==
    LET r == ParseValue(s, i)
        j == SkipWs(s, r.i)
    IN IF ~r.ok \/ j > Len(s) THEN PFail
       ELSE IF s[j] = "," THEN ParseElems(s, j + 1, Append(acc, r.v))
       ELSE IF s[j] = "]" THEN POk(JArr(Append(acc, r.v)), j + 1)
       ELSE PFail

\* one JSON text of the kinds the model's slot holds: a string, a number, null
\* or an array of them; any other text is rejected
ParseValue(s, i0) ==
    LET i == SkipWs(s, i0)
    IN IF i > Len(s) THEN PFail
       ELSE IF s[i] = "\"" THEN ParseString(s, i + 1, <<>>)
       ELSE IF s[i] \in Digits THEN ParseDigits(s, i, <<>>)
       ELSE IF s[i] = "n"
            THEN IF i + 3 <= Len(s) /\ SubSeq(s, i, i + 3) = <<"n", "u", "l", "l">>
                 THEN POk(JNull, i + 4) ELSE PFail
       ELSE IF s[i] = "["
            THEN LET j == SkipWs(s, i + 1)
                 IN IF j <= Len(s) /\ s[j] = "]" THEN POk(JArr(<<>>), j + 1)
                    ELSE ParseElems(s, j, <<>>)
       ELSE PFail

\* JSON.parse: ok is FALSE where it throws a SyntaxError
JSONparse(s) ==
    LET r == ParseValue(s, 1)
    IN IF r.ok /\ SkipWs(s, r.i) = Len(s) + 1 THEN r ELSE PFail

\* the cache cell a parsed value becomes
CellOf(v) == CASE v.t = "str" -> v.s
               [] v.t = "null" -> Null
               [] v.t = "num" -> NumberCell
               [] OTHER -> ObjectCell

ElemOrUndefined(a, n) == IF n <= Len(a) THEN CellOf(a[n]) ELSE Undefined

\* new Map(iterable): ok is FALSE where the constructor throws a TypeError
\* (a number is not iterable; an element that is not an object is not an entry)
NewMap(v) ==
    IF v.t = "null" THEN [ok |-> TRUE, m |-> <<>>]
    ELSE IF v.t = "str"
         THEN IF v.s = <<>> THEN [ok |-> TRUE, m |-> <<>>] ELSE [ok |-> FALSE, m |-> <<>>]
    ELSE IF v.t = "num" THEN [ok |-> FALSE, m |-> <<>>]
    ELSE IF \E i \in 1..Len(v.a) : v.a[i].t # "arr" THEN [ok |-> FALSE, m |-> <<>>]
    ELSE LET F[i \in 0..Len(v.a)] ==
                 IF i = 0 THEN <<>>
                 ELSE MapSet(F[i - 1], ElemOrUndefined(v.a[i].a, 1), ElemOrUndefined(v.a[i].a, 2))
         IN [ok |-> TRUE, m |-> F[Len(v.a)]]

(* ---------------------- the texts of the generator --------------------- *)
\* a text search, 0-based like the String methods it serves
includes(s, sub) ==
    \E i \in 0..(Len(s) - Len(sub)) : \A k \in 1..Len(sub) : s[i + k] = sub[k]

startsWith(s, sub) == Len(s) >= Len(sub) /\ \A k \in 1..Len(sub) : s[k] = sub[k]

endsWith(s, sub) ==
    Len(s) >= Len(sub) /\ \A k \in 1..Len(sub) : s[Len(s) - Len(sub) + k] = sub[k]

\* String.prototype.lastIndexOf of one character: -1 when it does not occur
lastIndexOf(s, c) ==
    LET at == {i \in 1..Len(s) : s[i] = c}
    IN IF at = {} THEN -1 ELSE (CHOOSE i \in at : \A j \in at : j <= i) - 1

\* String.prototype.split on one character: the pieces between its
\* occurrences, empty pieces included
RECURSIVE split(_, _)
split(s, sep) ==
    LET at == {i \in 1..Len(s) : s[i] = sep}
    IN IF at = {} THEN <<s>>
       ELSE LET i == CHOOSE i \in at : \A j \in at : i <= j
            IN <<SubSeq(s, 1, i - 1)>> \o split(SubSeq(s, i + 1, Len(s)), sep)

Quotes == {"\"", "'"}

roleLabels == << <<"i", "n", "t", "e", "r", "v", "i", "e", "w", "e", "r",
                   ":">>,
                 <<"q", "u", "e", "s", "t", "i", "o", "n", ":">>,
                 <<"a", "s", "k", ":">>,
                 <<"r", "e", "s", "p", "o", "n", "s", "e", ":">> >>

\* replace(/^(Interviewer:|Question:|Ask:|Response:)\s*/i, '')
stripRoleLabel(s) ==
    IF \E l \in 1..Len(roleLabels) : startsWith(toLowerCase(s), roleLabels[l])
    THEN LET l == CHOOSE l \in 1..Len(roleLabels) : startsWith(toLowerCase(s), roleLabels[l])
         IN trimStart(SubSeq(s, Len(roleLabels[l]) + 1, Len(s)))
    ELSE s

\* replace(/^["']\s*/, '')
stripLeadingQuote(s) ==
    IF s # <<>> /\ Head(s) \in Quotes THEN trimStart(Tail(s)) ELSE s

\* replace(/\s*["']$/, '')
stripTrailingQuote(s) ==
    IF s # <<>> /\ s[Len(s)] \in Quotes THEN trimEnd(SubSeq(s, 1, Len(s) - 1)) ELSE s

\* LLMClient.cleanResponse
cleanResponse(response) ==
    LET stripped == trim(stripTrailingQuote(stripLeadingQuote(stripRoleLabel(response))))
        lastSentence == lastIndexOf(stripped, ".")
        sentences ==
            IF Len(stripped) > 0 /\ stripped[Len(stripped)] \notin {".", "!", "?"}
               /\ 2 * lastSentence > Len(stripped)
            THEN substring(stripped, 0, lastSentence + 1)
            ELSE stripped
    IN IF includes(sentences, <<"?">>) /\ ~endsWith(sentences, <<"?">>)
       THEN substring(sentences, 0, lastIndexOf(sentences, "?") + 1)
       ELSE sentences

badPhrases == << <<"p", "r", "o", "f", "e", "s", "s", "i", "o", "n", "a",
                   "l", " ", "j", "o", "b", " ", "i", "n", "t", "e", "r",
                   "v", "i", "e", "w", "e", "r">>,
                 <<"i", " ", "a", "m", " ", "a">>,
                 <<"m", "y", " ", "n", "a", "m", "e", " ", "i", "s">>,
                 <<"i", "'", "m", " ", "h", "e", "r", "e", " ", "t", "o">>,
                 <<"l", "e", "t", " ", "m", "e", " ", "i", "n", "t", "r",
                   "o", "d", "u", "c", "e">> >>

\* the number of the words of userWords longer than 4 characters that are
\* among responseWords
overlapOf(userWords, responseWords) ==
    Cardinality({i \in 1..Len(userWords) :
                    /\ Len(userWords[i]) > 4
                    /\ \E j \in 1..Len(responseWords) : responseWords[j] = userWords[i]})

validateResponse_anytext(response, userMessage) ==
    LET lowerResponse == toLowerCase(response)
        userWords == split(toLowerCase(userMessage), " ")
        responseWords == split(lowerResponse, " ")
    IN /\ ~\E p \in 1..Len(badPhrases) : includes(lowerResponse, badPhrases[p])
       /\ ~(Len(response) < 10 \/ Len(response) > 300)
       /\ ~(10 * overlapOf(userWords, responseWords) > 7 * Len(userWords))

validateResponse_nolength(response, userMessage) ==
    LET lowerResponse == toLowerCase(response)
        userWords == split(toLowerCase(userMessage), " ")
        responseWords == split(lowerResponse, " ")
    IN /\ ~\E p \in 1..Len(badPhrases) : includes(lowerResponse, badPhrases[p])
       /\ includes(response, <<"?">>)
       /\ ~(10 * overlapOf(userWords, responseWords) > 7 * Len(userWords))

\* LLMClient.validateResponse; overlap > userWords.length * 0.7 is compared
\* in tenths
validateResponse(response, userMessage) ==
    LET lowerResponse == toLowerCase(response)
        userWords == split(toLowerCase(userMessage), " ")
        responseWords == split(lowerResponse, " ")
    IN /\ ~\E p \in 1..Len(badPhrases) : includes(lowerResponse, badPhrases[p])
       /\ includes(response, <<"?">>)
       /\ ~(Len(response) < 10 \/ Len(response) > 300)
       /\ ~(10 * overlapOf(userWords, responseWords) > 7 * Len(userWords))

\* the keyword rules of getFallbackQuestion, in the order they are tried
keywordRules ==
    << [keywords |-> { <<"e", "x", "p", "e", "r", "i", "e", "n", "c", "e">>,
                       <<"w", "o", "r", "k", "e", "d">> },
        question |-> <<"C", "a", "n", " ", "y", "o", "u", " ", "t", "e",
                       "l", "l", " ", "m", "e", " ", "m", "o", "r", "e",
                       " ", "a", "b", "o", "u", "t", " ", "t", "h", "e",
                       " ", "c", "h", "a", "l", "l", "e", "n", "g", "e",
                       "s", " ", "y", "o", "u", " ", "f", "a", "c", "e",
                       "d", " ", "i", "n", " ", "t", "h", "a", "t", " ",
                       "r", "o", "l", "e", "?">>],
       [keywords |-> { <<"p", "r", "o", "j", "e", "c", "t">>,
                       <<"b", "u", "i", "l", "t">> },
        question |-> <<"W", "h", "a", "t", " ", "t", "e", "c", "h", "n",
                       "o", "l", "o", "g", "i", "e", "s", " ", "d", "i",
                       "d", " ", "y", "o", "u", " ", "u", "s", "e", " ",
                       "a", "n", "d", " ", "w", "h", "y", " ", "d", "i",
                       "d", " ", "y", "o", "u", " ", "c", "h", "o", "o",
                       "s", "e", " ", "t", "h", "e", "m", "?">>],
       [keywords |-> { <<"t", "e", "a", "m">>,
                       <<"c", "o", "l", "l", "a", "b", "o", "r", "a", "t",
                         "e">> },
        question |-> <<"H", "o", "w", " ", "d", "o", " ", "y", "o", "u",
                       " ", "h", "a", "n", "d", "l", "e", " ", "d", "i",
                       "s", "a", "g", "r", "e", "e", "m", "e", "n", "t",
                       "s", " ", "w", "i", "t", "h", "i", "n", " ", "a",
                       " ", "t", "e", "a", "m", "?">>],
       [keywords |-> { <<"s", "k", "i", "l", "l">>,
                       <<"l", "e", "a", "r", "n">> },
        question |-> <<"W", "h", "a", "t", "'", "s", " ", "t", "h", "e",
                       " ", "m", "o", "s", "t", " ", "c", "h", "a", "l",
                       "l", "e", "n", "g", "i", "n", "g", " ", "s", "k",
                       "i", "l", "l", " ", "y", "o", "u", "'", "v", "e",
                       " ", "h", "a", "d", " ", "t", "o", " ", "l", "e",
                       "a", "r", "n", " ", "r", "e", "c", "e", "n", "t",
                       "l", "y", "?">>],
       [keywords |-> { <<"p", "r", "o", "b", "l", "e", "m">>,
                       <<"s", "o", "l", "v", "e">> },
        question |-> <<"C", "a", "n", " ", "y", "o", "u", " ", "w", "a",
                       "l", "k", " ", "m", "e", " ", "t", "h", "r", "o",
                       "u", "g", "h", " ", "y", "o", "u", "r", " ", "p",
                       "r", "o", "b", "l", "e", "m", "-", "s", "o", "l",
                       "v", "i", "n", "g", " ", "a", "p", "p", "r", "o",
                       "a", "c", "h", "?">>] >>

genericQuestions ==
    << <<"T", "h", "a", "t", "'", "s", " ", "i", "n", "t", "e", "r", "e",
         "s", "t", "i", "n", "g", ".", " ", "C", "a", "n", " ", "y", "o",
         "u", " ", "e", "l", "a", "b", "o", "r", "a", "t", "e", " ", "o",
         "n", " ", "t", "h", "a", "t", "?">>,
       <<"W", "h", "a", "t", " ", "m", "a", "d", "e", " ", "y", "o", "u",
         " ", "c", "h", "o", "o", "s", "e", " ", "t", "h", "a", "t", " ",
         "p", "a", "r", "t", "i", "c", "u", "l", "a", "r", " ", "a", "p",
         "p", "r", "o", "a", "c", "h", "?">>,
       <<"H", "o", "w", " ", "d", "i", "d", " ", "t", "h", "a", "t", " ",
         "e", "x", "p", "e", "r", "i", "e", "n", "c", "e", " ", "s", "h",
         "a", "p", "e", " ", "y", "o", "u", "r", " ", "c", "a", "r", "e",
         "e", "r", " ", "g", "o", "a", "l", "s", "?">>,
       <<"W", "h", "a", "t", " ", "w", "o", "u", "l", "d", " ", "y", "o",
         "u", " ", "d", "o", " ", "d", "i", "f", "f", "e", "r", "e", "n",
         "t", "l", "y", " ", "i", "f", " ", "y", "o", "u", " ", "c", "o",
         "u", "l", "d", " ", "d", "o", " ", "i", "t", " ", "a", "g", "a",
         "i", "n", "?">>,
       <<"W", "h", "a", "t", " ", "d", "i", "d", " ", "y", "o", "u", " ",
         "l", "e", "a", "r", "n", " ", "f", "r", "o", "m", " ", "t", "h",
         "a", "t", " ", "e", "x", "p", "e", "r", "i", "e", "n", "c", "e",
         "?">> >>

getFallbackQuestion_norules(userMessage, random) == genericQuestions[random + 1]

getFallbackQuestion_lastrule(userMessage, random) ==
    LET lowerMsg == toLowerCase(userMessage)
        applies(r) == \E k \in keywordRules[r].keywords : includes(lowerMsg, k)
        rules == {r \in 1..Len(keywordRules) : applies(r)}
    IN IF rules # {}
       THEN keywordRules[CHOOSE r \in rules : \A q \in rules : r >= q].question
       ELSE genericQuestions[random + 1]

\* LLMClient.getFallbackQuestion; random is Math.floor(Math.random() * 5)
getFallbackQuestion(userMessage, random) ==
    LET lowerMsg == toLowerCase(userMessage)
        applies(r) == \E k \in keywordRules[r].keywords : includes(lowerMsg, k)
        rules == {r \in 1..Len(keywordRules) : applies(r)}
    IN IF rules # {}
       THEN keywordRules[CHOOSE r \in rules : \A q \in rules : r <= q].question
       ELSE genericQuestions[random + 1]

\* the entries Array.prototype.slice(-n) keeps
sliceLast(a, n) == SubSeq(a, Len(a) - Min(n, Len(a)) + 1, Len(a))

\* LLMClient.buildContextualPrompt: the template it fills and the texts it
\* fills it with (the context lines carry the label of their role)
buildContextualPrompt(history, userMessage) ==
    IF Len(history) <= 1
    THEN [form |-> "first", conversation |-> <<>>, userMessage |-> userMessage]
    ELSE [form |-> "followup",
          conversation |->
              [i \in 1..Len(sliceLast(history, 4)) |->
                  [label |-> IF sliceLast(history, 4)[i].role = "user"
                             THEN "Candidate" ELSE "Interviewer",
                   content |-> sliceLast(history, 4)[i].content]],
          userMessage |-> userMessage]

(* ------------------------- inputs of the model ------------------------- *)
LongPrefix == Rep("a", HashPrefixLen)

\* raw keys: two spellings of one short key, another short key, and two long
\* keys that differ only after the first HashPrefixLen characters
RawKeys == { <<"a">>, <<" ", "A", "\n">>, <<"b">>,
             LongPrefix \o <<"b">>, <<" ">> \o LongPrefix \o <<"A">> }

\* a key whose normalized form is cut right after a space: its hundredth
\* character, once trimmed, is the space between its two words
EdgeKey == Rep("A", HashPrefixLen - 1) \o <<" ", "b">>

\* raw keys together with their stored forms
HashKeys == { EdgeKey, hash(EdgeKey), <<" ", "A", "\n">>, hash(<<" ", "A", "\n">>) }

\* cached values; the second needs every escape of the serialized form
Values == { <<"x", "?">>, <<"\"", "\\", "\n">> }

\* the keys used where the durable slot is exercised
StoreKeys == { <<"a">>, <<"B", " ">> }

\* what the durable slot can hold before the program first writes it: nothing,
\* the empty string, text that is not JSON, JSON that is no entry list, the
\* JSON null, and an entry list written by another instance (two entries)
ForeignList == << <<"[">>, <<"[">>, QuoteString(<<"a">>), <<",">>, QuoteString(<<"x", "?">>), <<"]">>, <<",">>,
                  <<"[">>, QuoteString(<<"b">>), <<",">>, QuoteString(<<"x", "?">>), <<"]">>, <<"]">> >>

InitialBlobs == { Null, <<>>, <<"[", "[">>, <<"5">>, <<"n", "u", "l", "l">>, Flatten(ForeignList) }

\* what the user says
Utterances ==
    { <<"I", " ", "h", "a", "v", "e", " ", "f", "i", "v", "e", " ", "y",
        "e", "a", "r", "s", " ", "o", "f", " ", "e", "x", "p", "e", "r",
        "i", "e", "n", "c", "e", " ", "i", "n", " ", "b", "a", "c", "k",
        "e", "n", "d", " ", "s", "y", "s", "t", "e", "m", "s">>,
      <<"b", "a", "c", "k", "e", "n", "d", " ", "s", "y", "s", "t", "e",
        "m", "s">>,
      <<"h", "e", "l", "l", "o", " ", "t", "h", "e", "r", "e">> }

\* the value a pipeline call resolves to when it carries no generated text
NoText == Undefined

\* a pipeline call that throws
Thrown == <<"throw">>

\* what the pipeline generates
GeneratedTexts ==
    { <<"W", "h", "a", "t", " ", "d", "a", "t", "a", "b", "a", "s", "e",
        "s", " ", "d", "o", " ", "y", "o", "u", " ", "u", "s", "e", "?">>,
      <<"T", "e", "l", "l", " ", "m", "e", " ", "a", "b", "o", "u", "t",
        " ", "y", "o", "u", "r", "s", "e", "l", "f", ".">>,
      <<"I", " ", "a", "m", " ", "a", " ", "b", "o", "t", ".", " ", "A",
        "n", "d", " ", "y", "o", "u", " ", "a", "r", "e", "?">>,
      <<"W", "h", "y", " ", "s", "o", "?">>,
      Rep("a", 300) \o <<"?">>,
      <<"W", "h", "i", "c", "h", " ", "b", "a", "c", "k", "e", "n", "d",
        " ", "s", "y", "s", "t", "e", "m", "s", " ", "g", "a", "v", "e",
        " ", "y", "o", "u", " ", "y", "e", "a", "r", "s", " ", "o", "f",
        " ", "e", "x", "p", "e", "r", "i", "e", "n", "c", "e", " ", "o",
        "k", "?">>,
      <<" ", "Q", "u", "e", "s", "t", "i", "o", "n", ":", " ", "\"", "H",
        "o", "w", " ", "d", "o", " ", "y", "o", "u", " ", "t", "e", "s",
        "t", " ", "c", "o", "d", "e", "?", " ", "I", " ", "m", "e", "a",
        "n", "\"", "\n">>,
      <<"T", "e", "l", "l", " ", "m", "e", " ", "a", "l", "l", " ", "o",
        "f", " ", "i", "t", ".", " ", "o", "k", "?", " ", "S", "o">> }

Outcomes == GeneratedTexts \cup {NoText, Thrown}

\* utterances for the keyword rules of the fallback: one for each rule, one
\* for two rules at once, and those above
GateUtterances ==
    Utterances \cup
    { <<"I", " ", "b", "u", "i", "l", "t", " ", "a", " ", "p", "r", "o",
        "j", "e", "c", "t">>,
      <<"I", " ", "w", "o", "r", "k", "e", "d", " ", "o", "n", " ", "a",
        " ", "p", "r", "o", "j", "e", "c", "t">>,
      <<"m", "y", " ", "t", "e", "a", "m">>,
      <<"I", " ", "l", "e", "a", "r", "n", " ", "f", "a", "s", "t">>,
      <<"I", " ", "s", "o", "l", "v", "e", " ", "p", "r", "o", "b", "l",
        "e", "m", "s">> }

\* a question followed by a long tail, 322 characters in all
LongTail ==
    <<"H", "o", "w", " ", "d", "o", " ", "y", "o", "u", " ", "t", "e", "s",
      "t", " ", "c", "o", "d", "e", "?", " ">> \o Rep("z", 300)

\* a question of 4 characters behind a role label, 14 characters in all
LabelledWhy == <<"Q", "u", "e", "s", "t", "i", "o", "n", ":", " ", "W", "h",
                 "y", "?">>

ExtraTexts == {LongTail, LabelledWhy}

\* the settlings of the pipeline for the length gate and the fallback
GateOutcomes == ExtraTexts \cup {<<"W", "h", "y", " ", "s", "o", "?">>, Thrown}

\* one utterance and two settlings for the runs that make the history grow
LongUtterances ==
    { <<"I", " ", "h", "a", "v", "e", " ", "f", "i", "v", "e", " ", "y",
        "e", "a", "r", "s", " ", "o", "f", " ", "e", "x", "p", "e", "r",
        "i", "e", "n", "c", "e", " ", "i", "n", " ", "b", "a", "c", "k",
        "e", "n", "d", " ", "s", "y", "s", "t", "e", "m", "s">> }

LongOutcomes == {<<"W", "h", "a", "t", " ", "d", "a", "t", "a", "b", "a",
                   "s", "e", "s", " ", "d", "o", " ", "y", "o", "u", " ",
                   "u", "s", "e", "?">>, Thrown}

\* what the user says to the application: nothing, and two utterances
AppUtterances ==
    LongUtterances \cup { <<>>, <<"I", " ", "b", "u", "i", "l", "t", " ",
                                  "a", " ", "p", "r", "o", "j", "e", "c",
                                  "t">> }

AppOutcomes == LongOutcomes

\* draws of the fallback: every utterance above falls under a keyword rule,
\* so the draw decides nothing
AppDraws == {0, 4}

\* the cache key of every utterance, hash(transcript)
cacheKey == [transcript \in AppUtterances |-> hash(transcript)]

\* the slot at page load: absent, or as an earlier session left it after
\* the fallback question for the second utterance
AppBlobs ==
    { Null,
      JSONstringify(<< <<hash(<<"I", " ", "b", "u", "i", "l", "t", " ", "a",
                                " ", "p", "r", "o", "j", "e", "c", "t">>), keywordRules[2].question>> >>) }

\* what a caller of getHistory pushes to the list it was given
CallerEntries == { [role |-> "user", content |-> <<"x">>] }

(* ------------------------------- state --------------------------------- *)
VARIABLES
    cache,      \* CacheManager.cache: the Map, as its entries in insertion order
    maxSize,    \* CacheManager.maxSize
    hits,       \* CacheManager.hits
    misses,     \* CacheManager.misses
    storage,    \* localStorage's slot 'ai_interview_cache': Null when absent
    lastOp,     \* the last call: its name, arguments, result and the state before it
    prevOp,     \* the call before the last one (recorded under LruSpec only)
    snapshot,   \* the entries at the last persist that wrote the slot
    isModelLoaded,        \* LLMClient.isModelLoaded
    conversationHistory,  \* LLMClient.conversationHistory
    gen,        \* the generateResponse call in flight or last completed: where
                \* it stands, its pipeline invocations so far (log), the
                \* generated text it accepted (output) and what it returned
    held,       \* the list the last getHistory call returned, as its caller has
                \* it now (list), with the history the call read (of), the list
                \* as returned (ret) and whether it is the history's own array
    app         \* AIInterviewBot: its flags, its transcript (conversationHistory),
                \* its counters, where the handleUserSpeech call in flight
                \* stands (pc) and what that cycle did so far (steps)

vars == <<cache, maxSize, hits, misses, storage, lastOp, prevOp, snapshot,
          isModelLoaded, conversationHistory, gen, held, app>>

cacheVars == <<cache, maxSize, hits, misses, storage, lastOp, prevOp, snapshot>>

genVars == <<isModelLoaded, conversationHistory, gen>>

\* no generateResponse call yet
NoGen ==
    [pc |-> "idle", userMessage |-> <<>>, attempt |-> 0, temperature |-> 0,
     log |-> <<>>, output |-> Undefined, accepted |-> FALSE, ret |-> Undefined,
     loaded |-> FALSE, pre |-> <<>>]

\* no stopInterview yet during the cycle in flight
NoStop ==
    [taken |-> FALSE, conversationHistory |-> <<>>, transcript |-> <<>>,
     cache |-> <<>>, storage |-> Null]

\* new AIInterviewBot(): no listener is set up and nothing is in flight
NoApp ==
    [stage |-> "constructed", isInterviewActive |-> FALSE, isProcessing |-> FALSE,
     isModelLoaded |-> FALSE, conversationHistory |-> <<>>, cacheHits |-> 0,
     cacheMisses |-> 0, pc |-> "idle", inflight |-> 0, transcript |-> <<>>,
     response |-> Undefined, steps |-> <<>>, spoken |-> Undefined,
     stopped |-> NoStop, starts |-> 0, last |-> "new",
     listening |-> FALSE, restart |-> FALSE]

\* no getHistory call yet
NoHeld == [called |-> FALSE, of |-> <<>>, ret |-> <<>>, list |-> <<>>, shared |-> FALSE,
           edits |-> 0]

NoSnapshot == << <<Null, Null>>, <<Null, Null>> >>

Pre == [cache |-> cache, hits |-> hits, misses |-> misses, storage |-> storage]

Call(op, key, val, ret, threw) ==
    [op |-> op, key |-> key, val |-> val, ret |-> ret, threw |-> threw, pre |-> Pre]

NoCall == [op |-> "none", key |-> <<>>, val |-> <<>>, ret |-> Undefined]

Summary(c) == [op |-> c.op, key |-> c.key, val |-> c.val, ret |-> c.ret]

\* new CacheManager(maxSize), with the slot in any of its initial contents
Init ==
    /\ maxSize \in 0..MaxCap
    /\ cache = <<>>
    /\ hits = 0
    /\ misses = 0
    /\ storage \in InitialBlobs
    /\ lastOp = Call("new", <<>>, <<>>, Undefined, FALSE)
    /\ prevOp = NoCall
    /\ snapshot = NoSnapshot
    /\ isModelLoaded = FALSE
    /\ conversationHistory = <<>>
    /\ gen = NoGen
    /\ held = NoHeld
    /\ app = NoApp

(* ----------------------------- operations ------------------------------ *)
get_entries_nomove(m, h) == m

\* the entries after get(key): a hit moves the entry to the end
get_entries(m, h) ==
    IF MapHas(m, h) THEN MapSet(MapDelete(m, h), h, MapGet(m, h)) ELSE m

\* CacheManager.get
get(key) ==
    LET h == hash(key)
    IN /\ hits + misses < MaxLookups
       /\ cache' = get_entries(cache, h)
       /\ IF MapHas(cache, h)
          THEN /\ hits' = hits + 1
               /\ misses' = misses
               /\ lastOp' = Call("get", key, <<>>, MapGet(cache, h), FALSE)
          ELSE /\ hits' = hits
               /\ misses' = misses + 1
               /\ lastOp' = Call("get", key, <<>>, Null, FALSE)
       /\ UNCHANGED <<maxSize, storage, snapshot>>

set_entries_gt(m, cap, h, value) ==
    LET m1 == IF Len(m) > cap /\ ~MapHas(m, h)
              THEN MapDelete(m, MapFirstKey(m))
              ELSE m
    IN MapSet(m1, h, value)

set_entries_always_evict(m, cap, h, value) ==
    LET m1 == IF Len(m) >= cap
              THEN MapDelete(m, MapFirstKey(m))
              ELSE m
    IN MapSet(m1, h, value)

\* the entries after set(key, value): the oldest entry is removed first when
\* the Map is at capacity and the key is new
set_entries(m, cap, h, value) ==
    LET m1 == IF Len(m) >= cap /\ ~MapHas(m, h)
              THEN MapDelete(m, MapFirstKey(m))
              ELSE m
    IN MapSet(m1, h, value)

\* CacheManager.set
set(key, value) ==
    /\ cache' = set_entries(cache, maxSize, hash(key), value)
    /\ lastOp' = Call("set", key, value, Undefined, FALSE)
    /\ UNCHANGED <<maxSize, hits, misses, storage, snapshot>>

has_touch(key) ==
    /\ cache' = get_entries(cache, hash(key))
    /\ lastOp' = Call("has", key, <<>>, IF MapHas(cache, hash(key)) THEN True ELSE False, FALSE)
    /\ UNCHANGED <<maxSize, hits, misses, storage, snapshot>>

\* CacheManager.has
has(key) ==
    /\ lastOp' = Call("has", key, <<>>, IF MapHas(cache, hash(key)) THEN True ELSE False, FALSE)
    /\ UNCHANGED <<cache, maxSize, hits, misses, storage, snapshot>>

clear_keepcounters ==
    /\ cache' = <<>>
    /\ lastOp' = Call("clear", <<>>, <<>>, Undefined, FALSE)
    /\ UNCHANGED <<maxSize, hits, misses, storage, snapshot>>

\* CacheManager.clear
clear ==
    /\ cache' = <<>>
    /\ hits' = 0
    /\ misses' = 0
    /\ lastOp' = Call("clear", <<>>, <<>>, Undefined, FALSE)
    /\ UNCHANGED <<maxSize, storage, snapshot>>

DigitChars == <<"0", "1", "2", "3", "4", "5", "6", "7", "8", "9">>

\* the decimal digits of a natural number
RECURSIVE ToDigits(_)
ToDigits(n) ==
    IF n < 10 THEN <<DigitChars[n + 1]>>
    ELSE Append(ToDigits(n \div 10), DigitChars[(n % 10) + 1])

\* Number.prototype.toFixed(2) of the number num / den >= 0: the nearest
\* multiple of 0.01, the larger one of two, with two digits after the point
toFixed2(num, den) ==
    LET n == (2 * 100 * num + den) \div (2 * den)
    IN ToDigits(n \div 100) \o <<".", DigitChars[((n % 100) \div 10) + 1], DigitChars[(n % 10) + 1]>>

getStats_ratio(m, h, ms) ==
    [size |-> Len(m), hits |-> h, misses |-> ms,
     hitRate |-> IF h + ms > 0 THEN toFixed2(h, h + ms) \o <<"%">> ELSE <<"0", "%">>]

\* the object getStats returns
getStats_result(m, h, ms) ==
    [size |-> Len(m), hits |-> h, misses |-> ms,
     hitRate |-> IF h + ms > 0 THEN toFixed2(h * 100, h + ms) \o <<"%">> ELSE <<"0", "%">>]

\* CacheManager.getStats (the call records the hitRate it returned)
getStats ==
    /\ lastOp' = Call("getStats", <<>>, <<>>, getStats_result(cache, hits, misses).hitRate, FALSE)
    /\ UNCHANGED <<cache, maxSize, hits, misses, storage, snapshot>>

\* the try block of persist: setItem throws when the store refuses the write
persist_try(m, slot, storeOk) ==
    IF storeOk
    THEN [completion |-> "normal", cache |-> m, storage |-> JSONstringify(m)]
    ELSE [completion |-> "throw", cache |-> m, storage |-> slot]

\* a try block with a catch clause that only logs: the call completes normally
caught(r) == [r EXCEPT !.completion = "normal"]

persist_nocatch(m, slot, storeOk) == persist_try(m, slot, storeOk)

\* persist: try { ... } catch (e) { console.warn(...) }
persist_call(m, slot, storeOk) == caught(persist_try(m, slot, storeOk))

\* CacheManager.persist
persist ==
    \E storeOk \in BOOLEAN :
        LET r == persist_call(cache, storage, storeOk)
        IN /\ cache' = r.cache
           /\ storage' = r.storage
           /\ snapshot' = IF storeOk THEN cache ELSE snapshot
           /\ lastOp' = Call("persist", <<>>, IF storeOk THEN True ELSE False, Undefined,
                             r.completion = "throw")
           /\ UNCHANGED <<maxSize, hits, misses>>

\* the try block of restore: getItem throws when the store is unavailable,
\* JSON.parse on text that is not JSON, new Map on a value that is no entry list
restore_try(m, slot, storeOk) ==
    IF ~storeOk THEN [completion |-> "throw", cache |-> m, storage |-> slot]
    ELSE IF slot \in {Null, <<>>} THEN [completion |-> "normal", cache |-> m, storage |-> slot]
    ELSE LET p == JSONparse(slot)
             n == NewMap(p.v)
         IN IF ~p.ok \/ ~n.ok THEN [completion |-> "throw", cache |-> m, storage |-> slot]
            ELSE [completion |-> "normal", cache |-> n.m, storage |-> slot]

restore_nocatch(m, slot, storeOk) == restore_try(m, slot, storeOk)

\* restore: try { ... } catch (e) { console.warn(...) }
restore_call(m, slot, storeOk) == caught(restore_try(m, slot, storeOk))

\* CacheManager.restore
restore ==
    \E storeOk \in BOOLEAN :
        LET r == restore_call(cache, storage, storeOk)
        IN /\ cache' = r.cache
           /\ storage' = r.storage
           /\ lastOp' = Call("restore", <<>>, IF storeOk THEN True ELSE False, Undefined,
                             r.completion = "throw")
           /\ UNCHANGED <<maxSize, hits, misses, snapshot>>

\* a page load constructs the manager anew, with the same capacity; the slot stays
construct ==
    /\ cache' = <<>>
    /\ hits' = 0
    /\ misses' = 0
    /\ lastOp' = Call("new", <<>>, <<>>, Undefined, FALSE)
    /\ UNCHANGED <<maxSize, storage, snapshot>>

(* ------------------------ the response generator ----------------------- *)
\* LLMClient.initialize: the import and the pipeline load succeed, or one of
\* them throws and the client stays as it was
initialize ==
    /\ \E loaded \in BOOLEAN : isModelLoaded' = (isModelLoaded \/ loaded)
    /\ UNCHANGED <<conversationHistory, gen>>

\* the head of one iteration of generateWithRetry's loop: the prompt is built
\* from the history as it is now and the pipeline is invoked with the
\* current temperature; the call then waits for the pipeline
invokePipeline(g, history) ==
    [g EXCEPT !.pc = "await",
              !.log = Append(@, [temperature |-> g.temperature,
                                 prompt |-> buildContextualPrompt(history, g.userMessage),
                                 outcome |-> "pending"])]

generateResponse_nocheck(userMessage) ==
    /\ gen.pc # "await"
    /\ conversationHistory' =
           Append(conversationHistory, [role |-> "user", content |-> userMessage])
    /\ gen' = invokePipeline([NoGen EXCEPT !.userMessage = userMessage,
                                           !.temperature = BaseTemperature,
                                           !.loaded = isModelLoaded,
                                           !.pre = conversationHistory],
                             conversationHistory')
    /\ UNCHANGED isModelLoaded

\* generateResponse up to its first suspension: the throw of a client whose
\* model is not loaded, else the push of the user's message and the first
\* invocation; gen.loaded and gen.pre record isModelLoaded and the history
\* as the call found them.  A call starts when no other is in flight, as
\* the application's isProcessing flag has it.
generateResponse(userMessage) ==
    /\ gen.pc # "await"
    /\ IF ~isModelLoaded
       THEN /\ gen' = [NoGen EXCEPT !.pc = "threw", !.userMessage = userMessage,
                                    !.pre = conversationHistory]
            /\ UNCHANGED conversationHistory
       ELSE /\ conversationHistory' =
                Append(conversationHistory, [role |-> "user", content |-> userMessage])
            /\ gen' = invokePipeline([NoGen EXCEPT !.userMessage = userMessage,
                                                   !.temperature = BaseTemperature,
                                                   !.loaded = TRUE,
                                                   !.pre = conversationHistory],
                                     conversationHistory')
    /\ UNCHANGED isModelLoaded

\* aiResponse of lines 190-191 for every text the pipeline generates
aiResponseOf == [result \in GeneratedTexts \cup ExtraTexts |-> cleanResponse(trim(result))]

\* validateResponse(aiResponse, userMessage) for every generated text and
\* every utterance
validates ==
    [result \in GeneratedTexts \cup ExtraTexts |->
        [userMessage \in GateUtterances |->
            validateResponse(aiResponseOf[result], userMessage)]]

\* the body of the try block once the pipeline call settled with result: a
\* throw of the pipeline or of result[0].generated_text.trim() is caught,
\* an accepted text is returned, a rejected one raises the temperature
attemptBody(g, result) ==
    IF result \in {Thrown, NoText}
    THEN [outcome |-> "threw", text |-> Undefined, temperature |-> g.temperature]
    ELSE IF validates[result][g.userMessage]
    THEN [outcome |-> "accepted", text |-> aiResponseOf[result], temperature |-> g.temperature]
    ELSE [outcome |-> "rejected", text |-> aiResponseOf[result],
          temperature |-> g.temperature + TemperatureStep]

returnResponse_nopush(g, response, accepted) ==
    /\ UNCHANGED conversationHistory
    /\ gen' = [g EXCEPT !.pc = "returned", !.ret = response, !.accepted = accepted]

\* the rest of generateResponse once generateWithRetry returned response
returnResponse(g, response, accepted) ==
    /\ conversationHistory' =
           Append(conversationHistory, [role |-> "assistant", content |-> response])
    /\ gen' = [g EXCEPT !.pc = "returned", !.ret = response, !.accepted = accepted]

pipelineSettles_retry_again(result, random) ==
    /\ gen.pc = "await"
    /\ LET body == attemptBody(gen, result)
           g == [gen EXCEPT !.log[Len(gen.log)].outcome = body.outcome,
                            !.output = IF body.outcome = "accepted" THEN result ELSE @,
                            !.temperature = body.temperature,
                            !.attempt = IF body.outcome = "accepted" THEN @ ELSE @ + 1]
       IN IF body.outcome = "accepted"
          THEN returnResponse(g, body.text, TRUE)
          ELSE IF g.attempt <= MaxRetries
          THEN gen' = invokePipeline(g, conversationHistory) /\ UNCHANGED conversationHistory
          ELSE returnResponse(g, getFallbackQuestion(g.userMessage, random), FALSE)
    /\ UNCHANGED isModelLoaded

pipelineSettles_nocatch(result, random) ==
    /\ gen.pc = "await"
    /\ LET body == attemptBody(gen, result)
           g == [gen EXCEPT !.log[Len(gen.log)].outcome = body.outcome,
                            !.output = IF body.outcome = "accepted" THEN result ELSE @,
                            !.temperature = body.temperature,
                            !.attempt = IF body.outcome = "accepted" THEN @ ELSE @ + 1]
       IN IF body.outcome = "accepted"
          THEN returnResponse(g, body.text, TRUE)
          ELSE IF body.outcome = "threw"
          THEN gen' = [g EXCEPT !.pc = "threw"] /\ UNCHANGED conversationHistory
          ELSE IF g.attempt < MaxRetries
          THEN gen' = invokePipeline(g, conversationHistory) /\ UNCHANGED conversationHistory
          ELSE returnResponse(g, getFallbackQuestion(g.userMessage, random), FALSE)
    /\ UNCHANGED isModelLoaded

\* the pipeline call of the attempt in flight resolves with result (a
\* generated text, a value without text, or a throw) and the call runs to
\* its next suspension or to its end; random is the draw of a fallback
pipelineSettles(result, random) ==
    /\ gen.pc = "await"
    /\ LET body == attemptBody(gen, result)
           g == [gen EXCEPT !.log[Len(gen.log)].outcome = body.outcome,
                            !.output = IF body.outcome = "accepted" THEN result ELSE @,
                            !.temperature = body.temperature,
                            !.attempt = IF body.outcome = "accepted" THEN @ ELSE @ + 1]
       IN IF body.outcome = "accepted"
          THEN returnResponse(g, body.text, TRUE)
          ELSE IF g.attempt < MaxRetries
          THEN gen' = invokePipeline(g, conversationHistory) /\ UNCHANGED conversationHistory
          ELSE returnResponse(g, getFallbackQuestion(g.userMessage, random), FALSE)
    /\ UNCHANGED isModelLoaded

clearHistory_droplast ==
    /\ conversationHistory' = SubSeq(conversationHistory, 1, Len(conversationHistory) - 1)
    /\ UNCHANGED <<isModelLoaded, gen>>

\* LLMClient.clearHistory
clearHistory ==
    /\ conversationHistory' = <<>>
    /\ UNCHANGED <<isModelLoaded, gen>>

getHistory_same ==
    /\ held' = [called |-> TRUE, of |-> conversationHistory, ret |-> conversationHistory,
                list |-> conversationHistory, shared |-> TRUE, edits |-> 0]
    /\ UNCHANGED genVars

\* LLMClient.getHistory: the spread makes a new array of the same entries
getHistory ==
    /\ held' = [called |-> TRUE, of |-> conversationHistory, ret |-> conversationHistory,
                list |-> conversationHistory, shared |-> FALSE, edits |-> 0]
    /\ UNCHANGED genVars

\* the caller of getHistory changes the array it was given; an array that
\* is the history's own changes for the generator as well
callerEdits(list) ==
    /\ held.called
    /\ held' = [held EXCEPT !.list = list, !.edits = @ + 1]
    /\ IF held.shared
       THEN conversationHistory' = list
       ELSE UNCHANGED conversationHistory
    /\ UNCHANGED <<isModelLoaded, gen>>

\* list.push(entry) by the caller
callerPush(entry) == callerEdits(Append(held.list, entry))

\* list.pop() by the caller
callerPop == held.list # <<>> /\ callerEdits(SubSeq(held.list, 1, Len(held.list) - 1))

(* --------------------------- the application --------------------------- *)
\* what the application leaves alone of the model's records of cache calls
appFrame == UNCHANGED <<maxSize, lastOp, prevOp, snapshot, held>>

welcomeMessage ==
    <<"H", "e", "l", "l", "o", "!", " ", "I", "'", "m", " ", "y", "o", "u",
      "r", " ", "A", "I", " ", "i", "n", "t", "e", "r", "v", "i", "e", "w",
      "e", "r", ".", " ", "L", "e", "t", "'", "s", " ", "s", "t", "a", "r",
      "t", " ", "w", "i", "t", "h", " ", "a", " ", "s", "i", "m", "p", "l",
      "e", " ", "q", "u", "e", "s", "t", "i", "o", "n", ":", " ", "C", "a",
      "n", " ", "y", "o", "u", " ", "t", "e", "l", "l", " ", "m", "e", " ",
      "a", " ", "b", "i", "t", " ", "a", "b", "o", "u", "t", " ", "y", "o",
      "u", "r", "s", "e", "l", "f", "?">>

Truthy_never(v) == FALSE

\* a value that an if takes for true
Truthy(v) == v \notin {<<>>, Null, Undefined}

\* AIInterviewBot.addMessage: the transcript after it
addMessage(messages, role, content) ==
    IF ~Truthy(content) \/ trim(content) = <<>>
    THEN messages
    ELSE Append(messages, [role |-> role, content |-> content])

\* AIInterviewBot.initialize up to the wait for the model: the cache is
\* restored and the listeners are set up
appInitialize(storeOk) ==
    /\ app.stage = "constructed"
    /\ LET r == restore_call(cache, storage, storeOk)
       IN cache' = r.cache /\ storage' = r.storage
    /\ app' = [app EXCEPT !.stage = "loading", !.last = "initialize"]
    /\ UNCHANGED <<hits, misses, genVars>>
    /\ appFrame

\* AIInterviewBot.loadAIModel once llmClient.initialize has settled
loadAIModel ==
    /\ app.stage = "loading"
    /\ initialize
    /\ app' = [app EXCEPT !.stage = "ready", !.isModelLoaded = isModelLoaded',
                          !.last = "load"]
    /\ UNCHANGED <<cache, hits, misses, storage>>
    /\ appFrame

stopInterview_nopersist(storeOk) ==
    /\ app' = [app EXCEPT !.isInterviewActive = FALSE, !.listening = FALSE,
                          !.last = "stop"]
    /\ UNCHANGED <<cache, storage, hits, misses, genVars>>
    /\ appFrame

\* AIInterviewBot.stopInterview, with the end of the recognition session
\* that recognition.stop() brings about (its onend finds the interview
\* stopped and schedules nothing); app.stopped keeps what the claims compare
\* with when a generation is outstanding
stopInterview(storeOk) ==
    /\ LET r == persist_call(cache, storage, storeOk)
       IN /\ cache' = r.cache
          /\ storage' = r.storage
          /\ app' = [app EXCEPT
                 !.isInterviewActive = FALSE,
                 !.listening = FALSE,
                 !.stopped = IF app.pc = "generating"
                             THEN [taken |-> TRUE,
                                   conversationHistory |-> conversationHistory,
                                   transcript |-> app.conversationHistory,
                                   cache |-> r.cache, storage |-> r.storage]
                             ELSE @,
                 !.last = "stop"]
    /\ UNCHANGED <<hits, misses, genVars>>
    /\ appFrame

startInterview_nocheck(audioOk, storeOk) ==
    IF audioOk
    THEN /\ app' = [app EXCEPT
                 !.isInterviewActive = TRUE,
                 !.listening = TRUE,
                 !.conversationHistory = addMessage(@, "ai", welcomeMessage),
                 !.starts = @ + 1,
                 !.last = "start"]
         /\ UNCHANGED <<cache, hits, misses, storage, genVars>>
         /\ appFrame
    ELSE stopInterview(storeOk)

\* AIInterviewBot.startInterview: refused while the model is not loaded;
\* audioOk is whether audioHandler.initialize resolved, and its failure
\* ends in stopInterview
startInterview(audioOk, storeOk) ==
    IF ~app.isModelLoaded
    THEN /\ app' = [app EXCEPT !.last = "notloaded"]
         /\ UNCHANGED <<cache, hits, misses, storage, genVars>>
         /\ appFrame
    ELSE IF audioOk
    THEN /\ app' = [app EXCEPT
                 !.isInterviewActive = TRUE,
                 !.listening = TRUE,
                 !.conversationHistory = addMessage(@, "ai", welcomeMessage),
                 !.starts = @ + 1,
                 !.last = "start"]
         /\ UNCHANGED <<cache, hits, misses, storage, genVars>>
         /\ appFrame
    ELSE stopInterview(storeOk)

\* recognition.onend: the recognition session is over, and a restart is
\* scheduled only if the interview is active and no cycle is in progress
recognitionEnds ==
    /\ app.listening
    /\ app' = [app EXCEPT
           !.listening = FALSE,
           !.restart = IF app.isInterviewActive /\ ~app.isProcessing THEN TRUE ELSE @,
           !.last = "onend"]
    /\ UNCHANGED <<cache, hits, misses, storage, genVars>>
    /\ appFrame

\* the timer that onend set fires: recognition is started again if the
\* interview is still active and no cycle is in progress (a start of a
\* session that is already running throws, which is caught)
restartFires ==
    /\ app.restart
    /\ app' = [app EXCEPT
           !.restart = FALSE,
           !.listening = IF app.isInterviewActive /\ ~app.isProcessing THEN TRUE ELSE @,
           !.last = "restart"]
    /\ UNCHANGED <<cache, hits, misses, storage, genVars>>
    /\ appFrame

\* AIInterviewBot.clearConversation
clearConversation ==
    /\ clearHistory
    /\ app' = [app EXCEPT !.conversationHistory = <<>>, !.last = "clear"]
    /\ UNCHANGED <<cache, hits, misses, storage>>
    /\ appFrame

ignores_noflag(transcript) == transcript = <<>> \/ ~app.isInterviewActive

\* the first line of handleUserSpeech: whether the utterance is dropped
ignores(transcript) ==
    transcript = <<>> \/ app.isProcessing \/ ~app.isInterviewActive

cacheLookup_blind(m, h) == Null

\* what cacheManager.get returns
cacheLookup(m, h) == IF MapHas(m, h) THEN MapGet(m, h) ELSE Null

\* handleUserSpeech from the response on: it is shown in the transcript and
\* handed to ttsEngine.speak, whose end the cycle then awaits
respond(a, response) ==
    [a EXCEPT !.response = response,
              !.conversationHistory = addMessage(@, "ai", response),
              !.steps = @ \o <<"show", "speak">>,
              !.spoken = response,
              !.pc = "speaking"]

finish_keepflag(a) ==
    [a EXCEPT !.pc = "idle", !.inflight = @ - 1,
              !.transcript = <<>>, !.response = Undefined, !.steps = <<>>,
              !.spoken = Undefined, !.stopped = NoStop]

\* the finally clause of handleUserSpeech; what the model recorded of the
\* cycle is dropped with it
finish(a) ==
    [a EXCEPT !.pc = "idle", !.isProcessing = FALSE, !.inflight = @ - 1,
              !.transcript = <<>>, !.response = Undefined, !.steps = <<>>,
              !.spoken = Undefined, !.stopped = NoStop]

\* AIInterviewBot.handleUserSpeech up to its first suspension: the utterance
\* is dropped, or a cycle starts and runs to the wait for the generator
\* (miss) or for the end of the speech (hit)
handleUserSpeech(transcript) ==
    IF ignores(transcript)
    THEN /\ app' = [app EXCEPT !.last = "ignored"]
         /\ UNCHANGED <<cache, hits, misses, storage, genVars>>
         /\ appFrame
    ELSE LET h == cacheKey[transcript]
             response == cacheLookup(cache, h)
             started == [app EXCEPT
                 !.isProcessing = TRUE,
                 !.inflight = @ + 1,
                 !.conversationHistory = addMessage(@, "user", transcript),
                 !.transcript = transcript,
                 !.response = Undefined,
                 !.spoken = Undefined,
                 !.stopped = NoStop,
                 !.steps = <<"get">>]
         IN /\ cache' = get_entries(cache, h)
            /\ hits' = IF MapHas(cache, h) THEN hits + 1 ELSE hits
            /\ misses' = IF MapHas(cache, h) THEN misses ELSE misses + 1
            /\ UNCHANGED storage
            /\ appFrame
            /\ IF Truthy(response)
               THEN /\ app' = [respond([started EXCEPT !.cacheHits = @ + 1], response)
                                  EXCEPT !.last = "hit"]
                    /\ UNCHANGED genVars
               ELSE /\ generateResponse(transcript)
                    /\ app' = IF gen'.pc = "threw"
                              THEN [finish([started EXCEPT !.cacheMisses = @ + 1])
                                       EXCEPT !.steps = <<"get", "generate">>,
                                              !.last = "failed"]
                              ELSE [started EXCEPT !.cacheMisses = @ + 1,
                                                   !.steps = <<"get", "generate">>,
                                                   !.pc = "generating",
                                                   !.last = "miss"]

\* the click on a quick reply
quickReplyClick(reply) ==
    IF app.isInterviewActive /\ ~app.isProcessing
    THEN handleUserSpeech(reply)
    ELSE /\ app' = [app EXCEPT !.last = "ignored"]
         /\ UNCHANGED <<cache, hits, misses, storage, genVars>>
         /\ appFrame

\* recognition.onresult with one final result, delivered while the
\* recognition session runs
onresult(transcript) ==
    /\ app.listening
    /\ handleUserSpeech(trim(transcript \o <<" ">>))

\* the pipeline call of the cycle's generateResponse settles; when
\* generateResponse returns, handleUserSpeech goes on to the wait for the
\* end of the speech
generationSettles(result, random, storeOk) ==
    /\ app.pc = "generating"
    /\ pipelineSettles(result, random)
    /\ IF gen'.pc = "returned"
       THEN LET r == persist_call(set_entries(cache, maxSize, cacheKey[app.transcript], gen'.ret),
                                  storage, storeOk)
            IN /\ cache' = r.cache
               /\ storage' = r.storage
               /\ app' = [respond([app EXCEPT !.steps = @ \o <<"set", "persist">>], gen'.ret)
                             EXCEPT !.stopped = NoStop, !.last = "returned"]
       ELSE /\ app' = [app EXCEPT !.last = "retry"]
            /\ UNCHANGED <<cache, storage>>
    /\ UNCHANGED <<hits, misses>>
    /\ appFrame

\* ttsEngine.speak settles, resolved or rejected: the cycle ends
speakSettles(resolved) ==
    /\ app.pc = "speaking"
    /\ app' = [finish(app) EXCEPT !.last = IF resolved THEN "spoken" ELSE "failed"]
    /\ UNCHANGED <<cache, hits, misses, storage, genVars>>
    /\ appFrame

(* --------------------------- specifications ---------------------------- *)
\* every operation of the cache, in any order, over a slot with any content
Next ==
    \/ \E key \in StoreKeys : get(key) /\ UNCHANGED <<prevOp, genVars, held, app>>
    \/ \E key \in StoreKeys, value \in Values : set(key, value) /\ UNCHANGED <<prevOp, genVars, held, app>>
    \/ \E key \in StoreKeys : has(key) /\ UNCHANGED <<prevOp, genVars, held, app>>
    \/ clear /\ UNCHANGED <<prevOp, genVars, held, app>>
    \/ getStats /\ UNCHANGED <<prevOp, genVars, held, app>>
    \/ persist /\ UNCHANGED <<prevOp, genVars, held, app>>
    \/ restore /\ UNCHANGED <<prevOp, genVars, held, app>>
    \/ construct /\ UNCHANGED <<prevOp, genVars, held, app>>

Spec == Init /\ [][Next]_vars

\* the in-memory operations alone, on every raw key, with the slot absent;
\* prevOp remembers the call before the last one
LruInit == Init /\ storage = Null

Remember == prevOp' = Summary(lastOp) /\ UNCHANGED <<genVars, held, app>>

LruNext ==
    \/ \E key \in RawKeys : get(key) /\ Remember
    \/ \E key \in RawKeys, value \in Values : set(key, value) /\ Remember
    \/ \E key \in RawKeys : has(key) /\ Remember
    \/ clear /\ Remember

LruSpec == LruInit /\ [][LruNext]_vars

\* a cache constructed empty that only ever receives set calls
SetNext == \E key \in RawKeys, value \in Values : set(key, value) /\ UNCHANGED <<prevOp, genVars, held, app>>

SetSpec == LruInit /\ [][SetNext]_vars

\* entries stored under raw keys and looked up by raw and by stored forms
HashNext ==
    \/ \E key \in HashKeys, value \in Values : set(key, value) /\ Remember
    \/ \E key \in HashKeys : get(key) /\ Remember

HashSpec == LruInit /\ [][HashNext]_vars

\* the response generator alone: its model loads or fails to, the user
\* speaks, the pipeline answers in every way, the history is cleared at
\* any moment
GenNext ==
    \/ initialize /\ UNCHANGED <<cacheVars, held, app>>
    \/ \E userMessage \in Utterances :
           /\ Len(conversationHistory) + 2 <= MaxHistory
           /\ generateResponse(userMessage) /\ UNCHANGED <<cacheVars, held, app>>
    \/ \E result \in Outcomes, random \in 0..4 :
           pipelineSettles(result, random) /\ UNCHANGED <<cacheVars, held, app>>
    \/ clearHistory /\ UNCHANGED <<cacheVars, held, app>>

GenInit == LruInit /\ maxSize = MaxCap

GenSpec == GenInit /\ [][GenNext]_vars

\* single calls on every kind of utterance, with texts at the edges of the
\* length gate and a throwing pipeline; the history is never cleared
GateNext ==
    \/ initialize /\ UNCHANGED <<cacheVars, held, app>>
    \/ \E userMessage \in GateUtterances :
           /\ Len(conversationHistory) + 2 <= MaxHistory
           /\ generateResponse(userMessage) /\ UNCHANGED <<cacheVars, held, app>>
    \/ \E result \in GateOutcomes, random \in 0..4 :
           pipelineSettles(result, random) /\ UNCHANGED <<cacheVars, held, app>>

GateSpec == GenInit /\ [][GateNext]_vars

\* call after call on a loaded model, the history never cleared
LongNext ==
    \/ initialize /\ UNCHANGED <<cacheVars, held, app>>
    \/ \E userMessage \in LongUtterances :
           /\ Len(conversationHistory) + 2 <= MaxLongHistory
           /\ generateResponse(userMessage) /\ UNCHANGED <<cacheVars, held, app>>
    \/ \E result \in LongOutcomes, random \in 0..4 :
           pipelineSettles(result, random) /\ UNCHANGED <<cacheVars, held, app>>

LongSpec == GenInit /\ [][LongNext]_vars

\* the response generator used by one caller at a time: a clearHistory or a
\* new call comes only when no call is suspended
SeqNext ==
    \/ initialize /\ UNCHANGED <<cacheVars, held, app>>
    \/ \E userMessage \in Utterances :
           /\ Len(conversationHistory) + 2 <= MaxHistory
           /\ generateResponse(userMessage) /\ UNCHANGED <<cacheVars, held, app>>
    \/ \E result \in Outcomes, random \in 0..4 :
           pipelineSettles(result, random) /\ UNCHANGED <<cacheVars, held, app>>
    \/ gen.pc # "await" /\ clearHistory /\ UNCHANGED <<cacheVars, held, app>>

SeqSpec == GenInit /\ [][SeqNext]_vars

\* the response generator and a caller of getHistory that pushes to and
\* pops from the lists it was given, between the calls of the generator
CopyNext ==
    \/ initialize /\ UNCHANGED <<cacheVars, held, app>>
    \/ \E userMessage \in LongUtterances :
           /\ Len(conversationHistory) + 2 <= MaxHistory
           /\ generateResponse(userMessage) /\ UNCHANGED <<cacheVars, held, app>>
    \/ \E result \in LongOutcomes, random \in 0..4 :
           pipelineSettles(result, random) /\ UNCHANGED <<cacheVars, held, app>>
    \/ clearHistory /\ UNCHANGED <<cacheVars, held, app>>
    \/ getHistory /\ UNCHANGED <<cacheVars, app>>
    \/ \E entry \in CallerEntries :
           held.edits < MaxEdits /\ callerPush(entry) /\ UNCHANGED <<cacheVars, app>>
    \/ held.edits < MaxEdits /\ callerPop /\ UNCHANGED <<cacheVars, app>>

CopySpec == GenInit /\ [][CopyNext]_vars

\* the application: it initializes, the model loads or fails to, and the
\* user's events (start, stop, clear, utterance, quick reply) come in any
\* order between the completions of the generator and of the speech
AppInit ==
    /\ maxSize = AppCacheSize
    /\ cache = <<>>
    /\ hits = 0
    /\ misses = 0
    /\ storage \in AppBlobs
    /\ lastOp = Call("new", <<>>, <<>>, Undefined, FALSE)
    /\ prevOp = NoCall
    /\ snapshot = NoSnapshot
    /\ isModelLoaded = FALSE
    /\ conversationHistory = <<>>
    /\ gen = NoGen
    /\ held = NoHeld
    /\ app = NoApp

AppNext ==
    \/ \E storeOk \in BOOLEAN : appInitialize(storeOk)
    \/ loadAIModel
    \/ \E audioOk \in BOOLEAN, storeOk \in BOOLEAN :
           /\ app.stage # "constructed"
           /\ ~app.isInterviewActive
           /\ app.starts < MaxStarts
           /\ startInterview(audioOk, storeOk)
    \/ \E storeOk \in BOOLEAN :
           /\ app.stage # "constructed"
           /\ stopInterview(storeOk)
    \/ app.stage # "constructed" /\ clearConversation
    \/ \E transcript \in AppUtterances :
           /\ app.stage # "constructed"
           /\ ignores(transcript) \/ app.cacheHits + app.cacheMisses < MaxCycles
           /\ handleUserSpeech(transcript)
    \/ \E reply \in AppUtterances :
           /\ app.stage # "constructed"
           /\ app.cacheHits + app.cacheMisses < MaxCycles
           /\ quickReplyClick(reply)
    \/ \E result \in AppOutcomes, random \in AppDraws, storeOk \in BOOLEAN :
           generationSettles(result, random, storeOk)
    \/ \E resolved \in BOOLEAN : speakSettles(resolved)

AppSpec == AppInit /\ [][AppNext]_vars

\* the application over a store that accepts every write (the read at page
\* load may still fail)
DurableNext ==
    \/ \E storeOk \in BOOLEAN : appInitialize(storeOk)
    \/ loadAIModel
    \/ \E audioOk \in BOOLEAN :
           /\ app.stage # "constructed"
           /\ ~app.isInterviewActive
           /\ app.starts < MaxStarts
           /\ startInterview(audioOk, TRUE)
    \/ app.stage # "constructed" /\ stopInterview(TRUE)
    \/ app.stage # "constructed" /\ clearConversation
    \/ \E transcript \in AppUtterances :
           /\ app.stage # "constructed"
           /\ ignores(transcript) \/ app.cacheHits + app.cacheMisses < MaxCycles
           /\ handleUserSpeech(transcript)
    \/ \E reply \in AppUtterances :
           /\ app.stage # "constructed"
           /\ app.cacheHits + app.cacheMisses < MaxCycles
           /\ quickReplyClick(reply)
    \/ \E result \in AppOutcomes, random \in AppDraws :
           generationSettles(result, random, TRUE)
    \/ \E resolved \in BOOLEAN : speakSettles(resolved)

DurableSpec == AppInit /\ [][DurableNext]_vars

\* the application with its speech recognition: utterances arrive as results
\* of the running recognition session or as quick replies, the session ends
\* at any moment (it is not continuous), and the restart timer fires
RecNext ==
    \/ \E storeOk \in BOOLEAN : appInitialize(storeOk)
    \/ loadAIModel
    \/ \E audioOk \in BOOLEAN :
           /\ app.stage # "constructed"
           /\ ~app.isInterviewActive
           /\ app.starts < MaxStarts
           /\ startInterview(audioOk, TRUE)
    \/ app.stage # "constructed" /\ stopInterview(TRUE)
    \/ \E transcript \in AppUtterances :
           /\ ignores(transcript) \/ app.cacheHits + app.cacheMisses < MaxCycles
           /\ onresult(transcript)
    \/ \E reply \in AppUtterances :
           /\ app.stage # "constructed"
           /\ app.cacheHits + app.cacheMisses < MaxCycles
           /\ quickReplyClick(reply)
    \/ \E result \in AppOutcomes, random \in AppDraws : generationSettles(result, random, TRUE)
    \/ \E resolved \in BOOLEAN : speakSettles(resolved)
    \/ recognitionEnds
    \/ restartFires

RecSpec == AppInit /\ [][RecNext]_vars

\* generationSettles can happen exactly when a cycle waits for the pipeline
generationPending == app.pc = "generating" /\ gen.pc = "await"

\* the application when every pipeline call and every speech output settles:
\* a completion that stays possible eventually happens. The first condition
\* is WF_vars of generationSettles with its enabling condition written out
AppFairSpec ==
    /\ AppSpec
    /\ \/ []<>~generationPending
       \/ []<><<\E result \in AppOutcomes, random \in AppDraws, storeOk \in BOOLEAN :
                    generationSettles(result, random, storeOk)>>_vars
    /\ WF_vars(\E resolved \in BOOLEAN : speakSettles(resolved))

(* ------------------------------ properties ----------------------------- *)
\* the state before the last call, and the normalized key of a call
pre == lastOp.pre

KeyOf(c) == hash(c.key)

\* the entries of m other than the one under k keep their values in n
OthersKept(m, n, k) ==
    \A i \in 1..Len(m) : m[i][1] # k => MapHas(n, m[i][1]) /\ MapGet(n, m[i][1]) = m[i][2]

\* the last call was a set of a key whose normalized form was absent
SetOfNewKey == lastOp.op = "set" /\ ~MapHas(pre.cache, KeyOf(lastOp))

\* the last call was a set of a key whose normalized form was present
SetOfPresentKey == lastOp.op = "set" /\ MapHas(pre.cache, KeyOf(lastOp))

\* C1: with a positive maxSize, after every set call made on a cache that was
\* constructed empty and has received only set calls, the number of entries
\* is at most maxSize
C1_SizeAtMostMaxSize == maxSize > 0 => Len(cache) <= maxSize

\* a set of a new key arrived at a cache holding maxSize >= 1 entries
C1_Witness ==
    /\ SetOfNewKey
    /\ maxSize > 0
    /\ Len(pre.cache) = maxSize
    /\ Len(cache) = maxSize

\* C2: in every reachable state of a cache, whatever maxSize and the content
\* of the slot, the number of entries is at most maxSize and no normalized
\* key occurs twice
C2_SizeAndKeysBounded ==
    /\ Len(cache) <= maxSize
    /\ \A i, j \in 1..Len(cache) : hash(cache[i][1]) = hash(cache[j][1]) => i = j

\* C3 as stated: a set of an absent key on a cache holding exactly maxSize
\* entries removes exactly the head entry, keeps the others in order and puts
\* the new entry last
C3_EvictsHead_AnyMaxSize ==
    (SetOfNewKey /\ Len(pre.cache) = maxSize) =>
        /\ Len(pre.cache) >= 1
        /\ cache = SubSeq(pre.cache, 2, Len(pre.cache)) \o << <<KeyOf(lastOp), lastOp.val>> >>

\* C3 amended: the same, for maxSize >= 1
C3_EvictsHead ==
    (SetOfNewKey /\ Len(pre.cache) = maxSize /\ maxSize >= 1) =>
        /\ ~MapHas(cache, pre.cache[1][1])
        /\ Len(cache) = Len(pre.cache)
        /\ cache = SubSeq(pre.cache, 2, Len(pre.cache)) \o << <<KeyOf(lastOp), lastOp.val>> >>

\* a third key was set on a cache of two entries with maxSize 2
C3_Witness ==
    /\ SetOfNewKey
    /\ maxSize = 2
    /\ Len(pre.cache) = 2
    /\ MapHas(cache, pre.cache[2][1])

\* a get that hit: the entry is now last, with the value it had, which is
\* also the value returned
HitMovesLast ==
    (lastOp.op = "get" /\ MapHas(pre.cache, KeyOf(lastOp))) =>
        /\ cache = MapDelete(pre.cache, KeyOf(lastOp))
                     \o << <<KeyOf(lastOp), MapGet(pre.cache, KeyOf(lastOp))>> >>
        /\ lastOp.ret = MapGet(pre.cache, KeyOf(lastOp))

\* the last two calls were a get that hit on a cache holding exactly maxSize
\* entries, then a set of a key that was absent
HitThenSetOfNewKey ==
    /\ SetOfNewKey
    /\ prevOp.op = "get"
    /\ MapHas(pre.cache, KeyOf(prevOp))
    /\ Len(pre.cache) = maxSize

\* C4 as stated: a hit moves the entry last without changing its value, and
\* after a hit on k in a full cache the next insertion of a new key evicts
\* an entry other than k
C4_HitSurvives_AnySize ==
    /\ HitMovesLast
    /\ HitThenSetOfNewKey =>
           /\ MapHas(cache, KeyOf(prevOp))
           /\ MapGet(cache, KeyOf(prevOp)) = prevOp.ret

\* C4 amended: the same, for a full cache of at least two entries
C4_HitSurvives ==
    /\ HitMovesLast
    /\ (HitThenSetOfNewKey /\ Len(pre.cache) >= 2) =>
           /\ MapHas(cache, KeyOf(prevOp))
           /\ MapGet(cache, KeyOf(prevOp)) = prevOp.ret
           /\ ~MapHas(cache, pre.cache[1][1])

\* the oldest of two entries was read, then a third key was set: the entry
\* that was read is still there
C4_Witness ==
    /\ HitThenSetOfNewKey
    /\ maxSize = 2
    /\ Len(cache) = 2
    /\ cache[1][1] = KeyOf(prevOp)
    /\ prevOp.ret \in Values

\* C5: after a set of a key whose normalized form was already present, the
\* entry is at the most-recently-used (last) position, so that a following
\* insertion at capacity does not evict it
C5_UpdateMovesLast ==
    SetOfPresentKey => cache[Len(cache)][1] = KeyOf(lastOp)

\* C6: set removes an entry only when the key is absent and the cache is at
\* capacity; a set of a present key replaces the value and removes nothing;
\* a set of an absent key below capacity removes nothing
C6_EvictionOnlyForNewKeyAtCapacity ==
    lastOp.op = "set" =>
        /\ (\E k \in MapKeys(pre.cache) : ~MapHas(cache, k)) =>
               (~MapHas(pre.cache, KeyOf(lastOp)) /\ Len(pre.cache) >= maxSize)
        /\ MapHas(pre.cache, KeyOf(lastOp)) =>
               /\ MapKeys(cache) = MapKeys(pre.cache)
               /\ Len(cache) = Len(pre.cache)
               /\ MapGet(cache, KeyOf(lastOp)) = lastOp.val
               /\ OthersKept(pre.cache, cache, KeyOf(lastOp))
        /\ (~MapHas(pre.cache, KeyOf(lastOp)) /\ Len(pre.cache) < maxSize) =>
               /\ Len(cache) = Len(pre.cache) + 1
               /\ OthersKept(pre.cache, cache, KeyOf(lastOp))

\* a present key was given another value in a cache at capacity
C6_Witness ==
    /\ SetOfPresentKey
    /\ Len(pre.cache) = maxSize
    /\ maxSize = 2
    /\ MapGet(pre.cache, KeyOf(lastOp)) # lastOp.val

\* the normalized form of a raw key as the claim words it: lower-cased, then
\* trimmed of surrounding whitespace, then cut to the first 100 characters
NormalForm(r) == SubSeq(trim(toLowerCase(r)), 1, Min(100, Len(trim(toLowerCase(r)))))

\* C7: for raw keys r1, r2 with the same normalized form, set(r1, X) followed
\* by get(r2) returns X, and the two keys hold one entry
C7_SameNormalFormSameSlot ==
    (lastOp.op = "get" /\ prevOp.op = "set" /\ NormalForm(prevOp.key) = NormalForm(lastOp.key)) =>
        /\ lastOp.ret = prevOp.val
        /\ Cardinality({i \in 1..Len(cache) : cache[i][1] \in {KeyOf(prevOp), KeyOf(lastOp)}}) = 1

\* two different raw keys longer than the prefix, differing in case, in the
\* surrounding whitespace and after the prefix, were set and then read
C7_Witness ==
    /\ lastOp.op = "get"
    /\ prevOp.op = "set"
    /\ prevOp.key # lastOp.key
    /\ NormalForm(prevOp.key) = NormalForm(lastOp.key)
    /\ Len(prevOp.key) > 100
    /\ toLowerCase(prevOp.key)[Len(prevOp.key)] # toLowerCase(lastOp.key)[Len(lastOp.key)]
    /\ lastOp.ret = prevOp.val

\* the cache before the last call was as the constructor leaves it
PreFresh == pre.cache = <<>> /\ pre.hits = 0 /\ pre.misses = 0

\* the last call was a restore that could read the slot, and the slot was
\* last written by persist
RestoreOfSnapshot == lastOp.op = "restore" /\ lastOp.val = True /\ snapshot # NoSnapshot

\* C8: persisting a cache and restoring into a fresh cache with the same
\* maxSize gives the same entries with the same values in the same order,
\* and the fresh cache's counters are zero
C8_RoundTrip ==
    /\ lastOp.op = "new" => (cache = <<>> /\ hits = 0 /\ misses = 0)
    /\ RestoreOfSnapshot => (cache = snapshot /\ hits = pre.hits /\ misses = pre.misses)

\* a cache of two entries, one value needing every escape, was persisted
\* and then restored into a fresh cache
C8_Witness ==
    /\ RestoreOfSnapshot
    /\ PreFresh
    /\ Len(cache) = 2
    /\ \E i \in 1..2 : cache[i][2] = <<"\"", "\\", "\n">>
    /\ cache[1][1] = <<"b">>
    /\ hits = 0
    /\ misses = 0

\* the slot held text that JSON.parse or the Map constructor rejects (the
\* JSON texts null and [] are entry lists: they restore an empty cache)
Malformed(slot) ==
    /\ slot # Null
    /\ ~JSONparse(slot).ok \/ ~NewMap(JSONparse(slot).v).ok

\* the last call was a restore that failed
RestoreFailed ==
    /\ lastOp.op = "restore"
    /\ lastOp.val = False \/ Malformed(pre.storage)

\* C9 as stated: restore never throws, and after a restore that failed the
\* cache is empty
C9_FailedRestoreEmpties ==
    /\ lastOp.op = "restore" => ~lastOp.threw
    /\ RestoreFailed => cache = <<>>

\* C9 amended: restore never throws, and a restore that failed leaves the
\* cache as it was (hence empty when it was called on a fresh cache)
C9_FailedRestoreKeeps ==
    /\ lastOp.op = "restore" => (~lastOp.threw /\ hits = pre.hits /\ misses = pre.misses)
    /\ RestoreFailed => cache = pre.cache
    /\ (RestoreFailed /\ PreFresh) => cache = <<>>

\* restore failed on a cache that held entries
C9_Witness ==
    /\ RestoreFailed
    /\ lastOp.val = True
    /\ pre.cache # <<>>

\* C10: persist never throws and, whether or not the write succeeds, leaves
\* the entries, their order and the counters unchanged
C10_PersistKeepsCache ==
    lastOp.op = "persist" =>
        /\ ~lastOp.threw
        /\ cache = pre.cache
        /\ hits = pre.hits
        /\ misses = pre.misses
        /\ lastOp.val = False => storage = pre.storage

\* a write was refused while the cache held two entries and a counted lookup
C10_Witness ==
    /\ lastOp.op = "persist"
    /\ lastOp.val = False
    /\ Len(cache) = 2
    /\ hits + misses > 0

\* C11: has returns true exactly when an entry is stored under the normal
\* form of the key, and changes neither the entries, their order nor the
\* counters; a has on the oldest entry does not save it from the next eviction
C11_HasIsReadOnly ==
    /\ lastOp.op = "has" =>
           /\ lastOp.ret = True <=> (\E i \in 1..Len(pre.cache) : pre.cache[i][1] = NormalForm(lastOp.key))
           /\ lastOp.ret \in {True, False}
           /\ cache = pre.cache
           /\ hits = pre.hits
           /\ misses = pre.misses
    /\ (SetOfNewKey /\ prevOp.op = "has" /\ pre.cache # <<>> /\ Len(pre.cache) >= maxSize
          /\ NormalForm(prevOp.key) = pre.cache[1][1]) =>
           ~MapHas(cache, pre.cache[1][1])

\* the oldest of two entries was probed under another spelling of its key,
\* then a third key was set and evicted it
C11_Witness ==
    /\ SetOfNewKey
    /\ prevOp.op = "has"
    /\ prevOp.ret = True
    /\ maxSize = 2
    /\ Len(pre.cache) = 2
    /\ NormalForm(prevOp.key) = pre.cache[1][1]
    /\ prevOp.key # pre.cache[1][1]
    /\ ~MapHas(cache, pre.cache[1][1])

\* the number a hitRate text "d...d.dd%" stands for, in hundredths
RECURSIVE DigitsValue(_)
DigitsValue(ds) ==
    IF ds = <<>> THEN 0
    ELSE 10 * DigitsValue(SubSeq(ds, 1, Len(ds) - 1))
         + (CHOOSE d \in 0..9 : DigitChars[d + 1] = ds[Len(ds)])

Hundredths(t) ==
    100 * DigitsValue(SubSeq(t, 1, Len(t) - 4)) + DigitsValue(SubSeq(t, Len(t) - 2, Len(t) - 1))

\* t is hits / (hits + misses) as a percentage with two decimals
IsPercentage(t, h, ms) ==
    /\ Len(t) >= 5
    /\ t[Len(t)] = "%"
    /\ t[Len(t) - 3] = "."
    /\ \A i \in (1..(Len(t) - 1)) \ {Len(t) - 3} : \E d \in 1..10 : DigitChars[d] = t[i]
    /\ 2 * (Hundredths(t) * (h + ms) - 10000 * h) <= h + ms
    /\ 2 * (10000 * h - Hundredths(t) * (h + ms)) <= h + ms

C13_ClearEmpties ==
    /\ lastOp.op = "clear" => (cache = <<>> /\ hits = 0 /\ misses = 0)
    /\ (lastOp.op = "get" /\ prevOp.op = "clear") =>
           (lastOp.ret = Null /\ hits = 0 /\ misses = 1 /\ cache = <<>>)

\* the cache was cleared and the next call, a get, missed
C13_Witness ==
    /\ lastOp.op = "get"
    /\ prevOp.op = "clear"
    /\ lastOp.ret = Null
    /\ misses = 1

\* the outcomes of the pipeline invocations of the call, in order
outcomes == [i \in 1..Len(gen.log) |-> gen.log[i].outcome]

\* every question getFallbackQuestion can return
FallbackQuestions ==
    {keywordRules[r].question : r \in 1..Len(keywordRules)}
        \cup {genericQuestions[q] : q \in 1..Len(genericQuestions)}

\* C14: a generateResponse call on a loaded model never ends by throwing,
\* whatever each pipeline invocation does (returns a text, returns
\* something without text, throws); it waits for at most three invocations
\* and when it has ended it has returned a text
C14_LoadedCallReturnsText ==
    gen.loaded =>
        /\ gen.pc \in {"await", "returned"}
        /\ gen.pc = "await" => (gen.attempt < 3 /\ Len(gen.log) = gen.attempt + 1)
        /\ gen.pc = "returned" =>
               /\ gen.ret \notin {Undefined, Null, Thrown}
               /\ Len(gen.ret) > 0
               /\ \A i \in 1..Len(gen.ret) : gen.ret[i] \notin {"undefined", "null", "throw"}

\* a call returned a text although all three invocations threw
C14_Witness ==
    /\ gen.loaded
    /\ gen.pc = "returned"
    /\ outcomes = <<"threw", "threw", "threw">>
    /\ Len(gen.ret) > 0

\* C15: a generateResponse call on a model that is not loaded throws,
\* invokes the pipeline not even once and leaves the history as it found it
C15_NotLoadedCallFails ==
    (gen.pc # "idle" /\ ~gen.loaded) =>
        /\ gen.pc = "threw"
        /\ gen.log = <<>>
        /\ gen.ret = Undefined
        /\ conversationHistory = gen.pre

\* a call was made before the model was loaded
C15_Witness ==
    /\ gen.pc = "threw"
    /\ ~gen.loaded
    /\ ~isModelLoaded
    /\ gen.userMessage # <<>>
    /\ gen.log = <<>>

\* C16: one call invokes the pipeline at most 3 times; every invocation
\* before the last one failed (threw or was rejected); a call that returned
\* either accepted the text of its last invocation and returned it, or made
\* exactly 3 invocations that all failed and returned a fallback question
C16_AtMostThreeAttempts ==
    /\ Len(gen.log) <= 3
    /\ \A i \in 1..(Len(gen.log) - 1) : outcomes[i] \in {"threw", "rejected"}
    /\ gen.pc = "await" => outcomes[Len(gen.log)] = "pending"
    /\ gen.pc = "returned" =>
           IF outcomes[Len(gen.log)] = "accepted"
           THEN /\ gen.accepted
                /\ gen.output \in GeneratedTexts
                /\ gen.ret = cleanResponse(trim(gen.output))
           ELSE /\ ~gen.accepted
                /\ Len(gen.log) = 3
                /\ outcomes[3] \in {"threw", "rejected"}
                /\ gen.ret \in FallbackQuestions

\* the fallback was returned after a throw, a rejection and a throw
C16_Witness ==
    /\ gen.pc = "returned"
    /\ ~gen.accepted
    /\ outcomes = <<"threw", "rejected", "threw">>
    /\ gen.ret \in FallbackQuestions

\* C17: invocation number k (k = 0, 1, 2) of a call uses temperature
\* 0.8 + 0.15 * k, in hundredths, whether the attempt before it was rejected
\* or threw
C17_TemperatureByAttempt ==
    \A i \in 1..Len(gen.log) : gen.log[i].temperature = 80 + 15 * (i - 1)

\* the four criteria of the validation gate, for a text and an utterance
NoDenylistedPhrase(text) ==
    \A lower \in {toLowerCase(text)} :
        \A p \in 1..Len(badPhrases) :
            \A i \in 1..(Len(lower) - Len(badPhrases[p]) + 1) :
                \E k \in 1..Len(badPhrases[p]) : lower[i + k - 1] # badPhrases[p][k]

HasQuestionMark(text) == \E i \in 1..Len(text) : text[i] = "?"

LengthWithinBounds(text) == Len(text) >= 10 /\ Len(text) <= 300

\* the lower-case words of a text, separated by single spaces
Words(text) == split(toLowerCase(text), " ")

\* the words longer than 4 characters among userWords, by position, and
\* those of them that are among textWords
LongWords(userWords) == {i \in 1..Len(userWords) : Len(userWords[i]) > 4}

SharedWords(textWords, userWords) ==
    {i \in LongWords(userWords) : \E j \in 1..Len(textWords) : textWords[j] = userWords[i]}

\* the overlap does not exceed 0.7 of the number of words of the utterance
OverlapWithinThreshold(text, utterance) ==
    \A textWords \in {Words(text)}, userWords \in {Words(utterance)} :
        10 * Cardinality(SharedWords(textWords, userWords)) <= 7 * Len(userWords)

NoQuestionMarkNoAccept ==
    \A text \in GeneratedTexts \cup {aiResponseOf[t] : t \in GeneratedTexts} :
        \A utterance \in Utterances :
            ~HasQuestionMark(text) => ~validateResponse(text, utterance)

\* C19: a text without a question mark is never accepted, and the text
\* a call returns, accepted or fallback, is not empty and ends with a
\* question mark
C19_ReturnedTextIsQuestion ==
    /\ NoQuestionMarkNoAccept
    /\ (gen.pc = "returned" /\ gen.accepted) => HasQuestionMark(gen.output)
    /\ gen.pc = "returned" => (Len(gen.ret) > 0 /\ gen.ret[Len(gen.ret)] = "?")

\* an accepted generated text did not end with a question mark as generated
\* and the returned text does
C19_Witness ==
    /\ gen.pc = "returned"
    /\ gen.accepted
    /\ trim(gen.output)[Len(trim(gen.output))] # "?"
    /\ gen.ret[Len(gen.ret)] = "?"

\* C20: a text in which more than 0.7 of the utterance's words longer than
\* 4 characters occur is never accepted
C20_OverlapRejected ==
    (gen.pc = "returned" /\ gen.accepted) =>
        \A textWords \in {Words(gen.ret)}, userWords \in {Words(gen.userMessage)} :
            ~(10 * Cardinality(SharedWords(textWords, userWords))
                  > 7 * Cardinality(LongWords(userWords)))

\* the generateResponse call ended by returning a fallback question
FallbackReturned == gen.pc = "returned" /\ ~gen.accepted

\* C21: a generated text shorter than 10 or longer than 300 characters is
\* never accepted, whatever post-processing would make of it
C21_OutputLengthGated ==
    (gen.pc = "returned" /\ gen.accepted) =>
        (Len(gen.output) >= 10 /\ Len(gen.output) <= 300)

\* a text contains a word, letter for letter
Contains(text, word) ==
    \E i \in 1..(Len(text) - Len(word) + 1) : SubSeq(text, i, i + Len(word) - 1) = word

TechnologyQuestion ==
    <<"W", "h", "a", "t", " ", "t", "e", "c", "h", "n", "o", "l", "o", "g",
      "i", "e", "s", " ", "d", "i", "d", " ", "y", "o", "u", " ", "u", "s",
      "e", " ", "a", "n", "d", " ", "w", "h", "y", " ", "d", "i", "d", " ",
      "y", "o", "u", " ", "c", "h", "o", "o", "s", "e", " ", "t", "h", "e",
      "m", "?">>

\* C22: the fallback for an utterance that contains 'project' is the
\* technology-choice question, whatever else the utterance contains
C22_ProjectRouting ==
    (FallbackReturned /\ Contains(toLowerCase(gen.userMessage), <<"p", "r",
                                                                  "o", "j",
                                                                  "e", "c",
                                                                  "t">>)) =>
        gen.ret = TechnologyQuestion

\* the utterance falls under the rule tried before the rule of 'project'
UnderFirstRule(utterance) ==
    \E k \in keywordRules[1].keywords : Contains(toLowerCase(utterance), k)

\* C22 as amended: the fallback for an utterance that contains 'project' is
\* the technology-choice question unless the utterance also contains
\* 'experience' or 'worked', and then it is the question about challenges;
\* it is never a question of the generic pool
C22_ProjectRoutingByOrder ==
    (FallbackReturned /\ Contains(toLowerCase(gen.userMessage), <<"p", "r",
                                                                  "o", "j",
                                                                  "e", "c",
                                                                  "t">>)) =>
        /\ gen.ret = IF UnderFirstRule(gen.userMessage)
                     THEN keywordRules[1].question
                     ELSE TechnologyQuestion
        /\ \A q \in 1..Len(genericQuestions) : gen.ret # genericQuestions[q]

\* the fallback ran for an utterance with 'project' and no earlier keyword
C22_Witness ==
    /\ FallbackReturned
    /\ Contains(toLowerCase(gen.userMessage), <<"p", "r", "o", "j", "e",
                                                "c", "t">>)
    /\ ~UnderFirstRule(gen.userMessage)
    /\ gen.ret = TechnologyQuestion

\* the rules whose keyword an utterance contains, case ignored
RulesOf(utterance) ==
    {r \in 1..Len(keywordRules) :
        \E k \in keywordRules[r].keywords : Contains(toLowerCase(utterance), k)}

GenericPool == {genericQuestions[q] : q \in 1..Len(genericQuestions)}

\* for every utterance, by the rules it falls under: a fixed question that
\* no draw changes, or the whole generic pool over the draws 0..4
FallbackByRule ==
    \A utterance \in GateUtterances :
        LET drawn == {getFallbackQuestion(utterance, random) : random \in 0..4}
        IN /\ drawn \subseteq FallbackQuestions
           /\ IF RulesOf(utterance) # {}
              THEN /\ Cardinality(drawn) = 1
                   /\ drawn \subseteq {keywordRules[r].question : r \in RulesOf(utterance)}
                   /\ drawn \cap GenericPool = {}
              ELSE drawn = GenericPool

\* C23: fallback selection returns one of ten fixed questions: the fixed
\* question of a rule whose keyword the utterance contains, whatever the
\* draw, and else one of the five generic questions, each of them reachable
C23_FallbackIsOneOfTen ==
    /\ Cardinality(FallbackQuestions) = 10
    /\ Cardinality(GenericPool) = 5
    /\ FallbackByRule
    /\ FallbackReturned =>
           /\ gen.ret \in FallbackQuestions
           /\ IF RulesOf(gen.userMessage) # {}
              THEN gen.ret \in {keywordRules[r].question : r \in RulesOf(gen.userMessage)}
              ELSE gen.ret \in GenericPool

\* the last generic question was drawn for an utterance without keyword
C23_Witness ==
    /\ FallbackReturned
    /\ RulesOf(gen.userMessage) = {}
    /\ gen.ret = genericQuestions[5]

\* C24: the step in which a generateResponse call returns leaves the history
\* equal to the history the call found, then (user, utterance), then
\* (assistant, returned text)
C24_TwoEntriesAppended ==
    [][(gen.pc = "await" /\ gen'.pc = "returned") =>
           conversationHistory' =
               gen'.pre \o <<[role |-> "user", content |-> gen'.userMessage],
                             [role |-> "assistant", content |-> gen'.ret]>>]_vars

IsPrefix(a, b) == Len(a) <= Len(b) /\ SubSeq(b, 1, Len(a)) = a

\* C25: every step leaves the history empty or with the old history as a
\* prefix
C25_AppendOrReset ==
    [][conversationHistory' = <<>> \/ IsPrefix(conversationHistory, conversationHistory')]_vars

\* a second exchange was appended behind the first one
C25_Witness ==
    /\ gen.pc = "returned"
    /\ Len(conversationHistory) = 4
    /\ Len(gen.pre) = 2
    /\ IsPrefix(gen.pre, conversationHistory)

\* a step in which a handleUserSpeech call gets past its first line
CycleStarts == app'.inflight > app.inflight

\* C26: at most one cycle is in progress and the flag is set exactly while
\* one is; a cycle starts only with the flag clear and the interview
\* active; an utterance that is dropped changes neither the transcript, the
\* generator and its history, the cache and its slot, nor any counter
C26_OneCycleAtATime ==
    /\ [](/\ app.inflight <= 1
          /\ app.isProcessing <=> app.inflight = 1
          /\ app.isProcessing <=> app.pc # "idle")
    /\ [][CycleStarts => (~app.isProcessing /\ app.isInterviewActive)]_vars
    /\ [][app'.last = "ignored" =>
              /\ app' = [app EXCEPT !.last = "ignored"]
              /\ UNCHANGED <<cache, hits, misses, storage, conversationHistory, gen>>]_vars

\* an utterance was dropped while the generator was awaited
C26_Witness ==
    /\ app.last = "ignored"
    /\ app.pc = "generating"
    /\ app.isProcessing
    /\ app.isInterviewActive

\* C27: while a generateResponse call is suspended, a step that is not a
\* step of that call changes neither the generator's history nor the cache
C27_NoMutationWhileSuspended ==
    [][(gen.pc = "await" /\ gen' = gen) =>
           (conversationHistory' = conversationHistory /\ cache' = cache)]_vars

\* C28: when generateResponse returns after a stopInterview during its
\* suspension, the generator's history, the transcript, the cache and its
\* slot are as the stop left them and nothing is spoken
C28_DiscardedAfterStop ==
    [][(app.stopped.taken /\ gen.pc = "await" /\ gen'.pc = "returned") =>
           /\ conversationHistory' = app.stopped.conversationHistory
           /\ app'.conversationHistory = app.stopped.transcript
           /\ cache' = app.stopped.cache
           /\ storage' = app.stopped.storage
           /\ app'.spoken = Undefined]_vars

\* the same keys with the same values
SameEntries(m, n) ==
    /\ MapKeys(m) = MapKeys(n)
    /\ \A k \in MapKeys(m) : MapGet(m, k) = MapGet(n, k)

\* C29: a cycle starts with the lookup; on a hit the cached text is shown
\* and spoken, the generator is left alone and the cache keeps its entries;
\* on a miss the generator is invoked, once, and when it returns the cache
\* holds the returned text under the utterance before it is shown and spoken
C29_CacheFirst ==
    /\ [](app.pc = "speaking" =>
             app.steps \in { <<"get", "show", "speak">>,
                             <<"get", "generate", "set", "persist", "show", "speak">> })
    /\ [][CycleStarts =>
              LET h == cacheKey[app'.transcript]
              IN IF MapHas(cache, h)
                 THEN /\ app'.last = "hit"
                      /\ app'.steps = <<"get", "show", "speak">>
                      /\ app'.response = MapGet(cache, h)
                      /\ app'.spoken = MapGet(cache, h)
                      /\ app'.conversationHistory[Len(app'.conversationHistory)] =
                             [role |-> "ai", content |-> MapGet(cache, h)]
                      /\ UNCHANGED <<gen, conversationHistory, storage>>
                      /\ SameEntries(cache, cache')
                 ELSE /\ app'.last = "miss"
                      /\ app'.steps = <<"get", "generate">>
                      /\ gen'.pc = "await"
                      /\ gen'.userMessage = app'.transcript
                      /\ Len(gen'.log) = 1
                      /\ app'.conversationHistory[Len(app'.conversationHistory)].role = "user"
                      /\ UNCHANGED <<cache, storage>>]_vars
    /\ [][(app.pc = "generating" /\ app'.pc = "speaking") =>
              /\ gen.pc = "await" /\ gen'.pc = "returned"
              /\ gen'.userMessage = app.transcript
              /\ MapGet(cache', cacheKey[app.transcript]) = gen'.ret
              /\ app'.response = gen'.ret
              /\ app'.spoken = gen'.ret
              /\ app'.conversationHistory[Len(app'.conversationHistory)] =
                     [role |-> "ai", content |-> gen'.ret]
              /\ app'.steps = <<"get", "generate", "set", "persist", "show", "speak">>]_vars

\* a miss was answered and cached after an earlier hit
C29_Witness ==
    /\ app.pc = "speaking"
    /\ Len(app.steps) = 6
    /\ app.cacheHits = 1
    /\ MapGet(cache, cacheKey[app.transcript]) = app.response

\* C30: the history never holds more than maxHistoryLength exchanges, two
\* entries each
C30_HistoryBounded == Len(conversationHistory) <= 2 * maxHistoryLength

\* the history a generateResponse call builds its prompts from when nothing
\* else touches it: what the call found, then the user's message
HistoryOfCall == Append(gen.pre, [role |-> "user", content |-> gen.userMessage])

\* the at most 4 last entries of a history, each under the label of its role
LabelledTail(h) ==
    [i \in 1..Min(4, Len(h)) |->
        [label |-> IF h[Len(h) - Min(4, Len(h)) + i].role = "user"
                   THEN "Candidate" ELSE "Interviewer",
         content |-> h[Len(h) - Min(4, Len(h)) + i].content]]

\* C31: every prompt of a call has the first-turn form exactly when the
\* history was empty before the call, and else the follow-up form over the
\* at most 4 last entries in order, labelled by role, with the utterance;
\* all prompts of one call are the same
C31_PromptByHistory ==
    \A i \in 1..Len(gen.log) :
        LET prompt == gen.log[i].prompt
        IN /\ prompt.form = IF gen.pre = <<>> THEN "first" ELSE "followup"
           /\ prompt.userMessage = gen.userMessage
           /\ prompt.form = "followup" => prompt.conversation = LabelledTail(HistoryOfCall)
           /\ prompt = gen.log[1].prompt

\* user, assistant, user, assistant, ...
RolesAlternate(h) ==
    \A i \in 1..Len(h) : h[i].role = IF i % 2 = 1 THEN "user" ELSE "assistant"

\* C33: between calls (none suspended) the history has even length and its
\* roles alternate user, assistant, starting with user
C33_HistoryAlternates ==
    gen.pc # "await" =>
        /\ Len(conversationHistory) % 2 = 0
        /\ RolesAlternate(conversationHistory)

\* two exchanges, the second one closed by a fallback question
C33_Witness ==
    /\ FallbackReturned
    /\ Len(conversationHistory) = 4
    /\ RolesAlternate(conversationHistory)
    /\ conversationHistory[4].content = gen.ret

\* C32: getHistory returns the entries of the history in their order, and a
\* push to or a pop from the returned list leaves the history, which later
\* getHistory calls and prompts read, as it was
C32_GetHistoryCopies ==
    /\ [](held.called => held.ret = held.of)
    /\ [][(held.called /\ held'.list # held.list /\ held'.edits > held.edits) =>
              UNCHANGED conversationHistory]_vars
    /\ [][(held'.called /\ held'.edits = 0) => held'.list = held'.of]_vars

\* the caller pushed to and popped from a list of two entries that the
\* history still holds
C32_Witness ==
    /\ held.called
    /\ held.edits = 2
    /\ Len(held.ret) = 2
    /\ held.list # held.ret
    /\ conversationHistory = held.ret

\* C36: while the interview is active the application and the generator
\* have the model loaded, and no generateResponse call has failed for a
\* model that is not loaded
C36_ActiveImpliesLoaded ==
    /\ app.isInterviewActive => (app.isModelLoaded /\ isModelLoaded)
    /\ gen.pc # "threw"
    /\ gen.pc # "idle" => gen.loaded

\* a cycle of an active interview waits for the generator
C36_Witness ==
    /\ app.isInterviewActive
    /\ app.pc = "generating"
    /\ gen.pc = "await"
    /\ gen.loaded

\* a step in which a cycle gets its response and hands it to the speech
GetsResponse == app.pc # "speaking" /\ app'.pc = "speaking"

\* C37: when a cycle gets its response, from the cache or from the
\* generator, the generator's history ends with the cycle's utterance and
\* that response
C37_CycleReachesHistory ==
    [][GetsResponse =>
           /\ Len(conversationHistory') >= 2
           /\ SubSeq(conversationHistory', Len(conversationHistory') - 1,
                     Len(conversationHistory')) =
                  << [role |-> "user", content |-> app'.transcript],
                     [role |-> "assistant", content |-> app'.response] >>]_vars

\* C37 as amended: a cycle served from the cache leaves the generator's
\* history as it was; a cycle that misses appends (user, utterance) when it
\* starts and (assistant, response) when the generator returns
C37_OnlyGeneratedCyclesInHistory ==
    /\ [][CycleStarts =>
              IF MapHas(cache, cacheKey[app'.transcript])
              THEN /\ app'.pc = "speaking"
                   /\ UNCHANGED conversationHistory
              ELSE /\ app'.pc = "generating"
                   /\ conversationHistory' =
                          Append(conversationHistory,
                                 [role |-> "user", content |-> app'.transcript])]_vars
    /\ [][(app.pc = "generating" /\ app'.pc = "speaking") =>
              conversationHistory' =
                  Append(conversationHistory,
                         [role |-> "assistant", content |-> app'.response])]_vars

\* a cycle served from the cache speaks while the generator's history is
\* empty and the transcript holds the utterance
C37_Witness ==
    /\ app.pc = "speaking"
    /\ app.steps = <<"get", "show", "speak">>
    /\ conversationHistory = <<>>
    /\ \E i \in 1..Len(app.conversationHistory) :
           app.conversationHistory[i] = [role |-> "user", content |-> app.transcript]

\* C38: with the interview stopped after a start and no cycle in progress,
\* the slot holds the serialized entries of the cache, in their order
C38_SlotEqualsCacheAfterStop ==
    (app.starts > 0 /\ ~app.isInterviewActive /\ app.pc = "idle") =>
        storage = JSONstringify(cache)

\* the interview was stopped after a hit had moved the older of two entries
\* to the end
C38_Witness ==
    /\ app.starts > 0
    /\ ~app.isInterviewActive
    /\ app.pc = "idle"
    /\ Len(cache) = 2
    /\ hits = 1
    /\ cache[2][1] = cacheKey[<<"I", " ", "b", "u", "i", "l", "t", " ", "a", " ", "p", "r",
                                "o", "j", "e", "c", "t">>]
    /\ storage = JSONstringify(cache)

\* C39: key normalization is idempotent, so a get by the stored form of the
\* key of the set just before it returns the value that was set
C39_StoredFormFindsEntry ==
    (lastOp.op = "get" /\ prevOp.op = "set" /\ lastOp.key = NormalForm(prevOp.key)) =>
        /\ NormalForm(lastOp.key) = lastOp.key
        /\ lastOp.ret = prevOp.val

\* C34: when every generation invocation and every speech output settles, a
\* cycle that has set the processing flag eventually clears it, whatever way
\* the cycle ends
C34_FlagEventuallyCleared == app.isProcessing ~> ~app.isProcessing

\* a cycle answered from the cache whose speech output failed has ended with
\* the flag cleared
C34_Witness ==
    /\ app.last = "failed"
    /\ app.cacheHits = 1
    /\ app.cacheMisses = 0
    /\ app.pc = "idle"
    /\ ~app.isProcessing

\* a cycle waits for the pipeline only while an attempt of the generator is
\* in flight
C34_PendingWhileGenerating == app.pc = "generating" => generationPending

\* C35: while the interview is active and no cycle is in progress, the
\* recognition session is running or its restart is pending
C35_RecognitionAliveBetweenCycles ==
    (app.isInterviewActive /\ ~app.isProcessing /\ app.pc = "idle") =>
        (app.listening \/ app.restart)

====
